---- MODULE Spec2Model ----
(***************************************************************************)
(* State-machine model of the OneDrive document retrieval pipeline:        *)
(*   backend/ingest_onedrive.py   staging of remote items (SpecFetch)      *)
(*   backend/onedrive_client.py   authenticated requests (SpecAuth),       *)
(*                                listing (SpecList), upload (SpecUpload)  *)
(*   backend/embedding_utils.py   the provider chain (SpecProv)            *)
(*   backend/extract_answers_smart.py   text extraction (SpecExtract)      *)
(*   backend/embed.py             chunking, embedding, store (SpecEmbed),  *)
(*                                _normalize (SpecNorm)                    *)
(*   backend/mcp_server.py        the reindex tool (SpecReindex,           *)
(*                                SpecRetool)                              *)
(*   backend/retriever.py, llm_answer.py, main.py                          *)
(*                                retrieval and /ask (SpecQuery)           *)
(*   the loops of the above under fairness (SpecBounded)                   *)
(* Strings are sequences of one-character strings, so that sanitising a    *)
(* name is the character filter the code applies.                          *)
(***************************************************************************)
EXTENDS Integers, Sequences, FiniteSets, TLC

\* ------------------------------------------------------------------ bounds
\* The local clock runs from 1 to MaxTime.
MaxTime == 2
\* Number of calls of fetch_onedrive_folder in one behaviour.
MaxRuns == 2

\* ----------------------------------------------------------------- strings
InvalidChars == {"<", ">", ":", "\"", "/", "\\", "|", "?", "*"}

Whitespace == {" "}

Untitled == <<"u", "n", "t", "i", "t", "l", "e", "d">>

RECURSIVE DropInvalid(_)
DropInvalid(s) ==
    IF s = <<>> THEN <<>>
    ELSE IF Head(s) \in InvalidChars THEN DropInvalid(Tail(s))
    ELSE <<Head(s)>> \o DropInvalid(Tail(s))

RECURSIVE LStrip(_)
LStrip(s) ==
    IF s = <<>> THEN <<>>
    ELSE IF Head(s) \in Whitespace THEN LStrip(Tail(s))
    ELSE s

RECURSIVE RStrip(_)
RStrip(s) ==
    IF s = <<>> THEN <<>>
    ELSE IF s[Len(s)] \in Whitespace THEN RStrip(SubSeq(s, 1, Len(s) - 1))
    ELSE s

Strip(s) == RStrip(LStrip(s))

\* _safe_name: drop the characters <>:"/\|?* , strip, or "untitled".
_safe_name(name) ==
    LET t == Strip(DropInvalid(name)) IN IF t = <<>> THEN Untitled ELSE t

EndsWith(s, suffix) ==
    /\ Len(s) >= Len(suffix)
    /\ SubSeq(s, Len(s) - Len(suffix) + 1, Len(s)) = suffix

Contains(s, c) == \E i \in 1..Len(s) : s[i] = c

\* Position of the last occurrence of c in s (0 when there is none).
LastIndexOf(s, c) ==
    IF Contains(s, c)
    THEN CHOOSE i \in 1..Len(s) : s[i] = c /\ \A j \in (i + 1)..Len(s) : s[j] # c
    ELSE 0

\* os.path.dirname of a relative path with "/" separators.
dirname(p) == SubSeq(p, 1, LastIndexOf(p, "/") - 1)

\* os.path.join(dir, name), relative to DOCS_DIR.
join(dir, name) == dir \o <<"/">> \o name

\* ------------------------------------------------------------ remote drive
\* The remote items of the drive: a PDF and a protected item at the top
\* level, and one text file in each of the folders a/b and ab.
NoRel == <<>>

RemoteFiles ==
    { [id |-> 1, name |-> <<"a", ".", "p", "d", "f">>,
       rel |-> <<"a", ".", "p", "d", "f">>, folder |-> FALSE],
      [id |-> 2, name |-> <<"n", ".", "t", "x", "t">>,
       rel |-> <<"a", "/", "b", "/", "n", ".", "t", "x", "t">>, folder |-> FALSE],
      [id |-> 3, name |-> <<"n", ".", "t", "x", "t">>,
       rel |-> <<"a", "b", "/", "n", ".", "t", "x", "t">>, folder |-> FALSE],
      [id |-> 4, name |-> <<"v", "a", "u", "l", "t">>,
       rel |-> <<"v", "a", "u", "l", "t">>, folder |-> FALSE] }

RemoteFolders ==
    { [id |-> 5, name |-> <<"a">>, rel |-> <<"a">>, folder |-> TRUE],
      [id |-> 6, name |-> <<"a", "b">>, rel |-> <<"a", "b">>, folder |-> TRUE] }

ItemIds == 1..6

ItemOf(i) == CHOOSE it \in RemoteFiles \cup RemoteFolders : it.id = i

\* What list_folder_items returns: recursive, the files of the tree, those
\* of a folder before those of its subfolders, each with _relative_path;
\* non-recursive, the children of the root and no _relative_path.
Listing(recursive, mt) ==
    LET withTime(i) == [id |-> i, name |-> ItemOf(i).name, folder |-> ItemOf(i).folder,
                        rel |-> IF recursive THEN ItemOf(i).rel ELSE NoRel,
                        mtime |-> mt[i]]
    IN IF recursive
       THEN <<withTime(1), withTime(4), withTime(2), withTime(3)>>
       ELSE <<withTime(5), withTime(6), withTime(1), withTime(4)>>

\* ------------------------------------------------------------ local staging
NoFile == [kind |-> "none"]

\* What a file holds: "good" (the item's bytes, well-formed), "empty" (zero
\* bytes) or "bad" (truncated or damaged bytes).
Kinds == {"good", "empty", "bad"}

Pdf == <<".", "p", "d", "f">>

Docx == <<".", "d", "o", "c", "x">>

Pptx == <<".", "p", "p", "t", "x">>

\* Mutant: every file is only checked for being readable.
IntegrityReadableOnly(path, d) == d[path] # NoFile

\* _test_file_integrity: a PDF must open and have a page, an Office file
\* must open as a zip archive, any other file must only be readable.  A
\* missing file raises inside the try block and gives False.
_test_file_integrity(path, d) ==
    IF d[path] = NoFile THEN FALSE
    ELSE IF EndsWith(path, Pdf) THEN d[path].kind = "good"
    ELSE IF EndsWith(path, Docx) \/ EndsWith(path, Pptx) THEN d[path].kind = "good"
    ELSE TRUE

Protected == { <<"p", "e", "r", "s", "o", "n", "a", "l", " ", "v", "a", "u", "l", "t">>,
               <<"v", "a", "u", "l", "t">> }

\* relative_path = item.get("_relative_path", item["name"])
RelativePath(item) == IF item.rel = NoRel THEN item.name ELSE item.rel

\* dest_path of fetch_onedrive_folder, relative to DOCS_DIR.
DestPath(item, recursive) ==
    IF recursive /\ Contains(RelativePath(item), "/")
    THEN join(_safe_name(dirname(RelativePath(item))), _safe_name(item.name))
    ELSE _safe_name(item.name)

Paths == { DestPath(it, r) : it \in RemoteFiles, r \in BOOLEAN }

\* ------------------------------------------------------------------- state
VARIABLES
    now,          \* the local clock
    remoteMtime,  \* lastModifiedDateTime of each remote item (0: the field is absent)
    disk,         \* DOCS_DIR: path -> file or NoFile
    pc,           \* where fetch_onedrive_folder stands
    force,        \* its argument force_redownload
    recursive,    \* its argument recursive
    items,        \* the listing it iterates over
    idx,          \* position of the current item in items
    stats,        \* download_stats
    dest,         \* dest_path of the item being downloaded
    tried,        \* the running _download_with_retry call: how each attempt
                  \* (each call of download_file) ended
    ret,          \* what _download_with_retry returned
    prior,        \* the file at dest_path when the current item was reached
    runs,         \* calls of fetch_onedrive_folder so far
    before,       \* the local paths whose file passed the integrity check
                  \* when the running call began
    prev          \* the call before, if it ran without force_redownload and
                  \* reached its summary with every item downloaded: its
                  \* argument recursive and the remote times it saw

fetchVars == <<now, remoteMtime, disk, pc, force, recursive, items, idx, stats,
               dest, tried, ret, prior, runs, before, prev>>

\* _make_authenticated_request (onedrive_client.py) and auth.py
VARIABLES
    pcA,            \* where the running call stands
    cachedHeaders,  \* _cached_headers: the token of the cached header, or None
    cachedToken,    \* auth._cached_token, or None
    tokenFile,      \* whether TOKEN_CACHE_FILE exists
    account,        \* whether the MSAL application holds an account
    issued,         \* the latest token the identity provider issued
    method,         \* the call's HTTP method
    sent,           \* the tokens of the requests the call has sent, in order
    statuses,       \* the status codes of the responses it received, in order
    acquired,       \* the tokens get_access_token returned during the call
    result,         \* the status of the response the call returned
    calls           \* calls of _make_authenticated_request so far

authVars == <<pcA, cachedHeaders, cachedToken, tokenFile, account, issued, method,
              sent, statuses, acquired, result, calls>>

\* list_folder_items (onedrive_client.py)
VARIABLES
    pcL,         \* where the running list_folder_items call stands
    folderL,     \* its argument folder_path
    recursiveL,  \* its argument recursive
    stack,       \* the active calls of _list_folder_recursive, outermost first
    listResult,  \* what list_folder_items returned
    failedL,     \* the folders whose listing raised during the call
    lists        \* calls of list_folder_items so far

listVars == <<pcL, folderL, recursiveL, stack, listResult, failedL, lists>>

\* upload_file (onedrive_client.py)
VARIABLES
    pcU,        \* where the running upload_file call stands
    folderU,    \* its argument onedrive_folder_path, as path segments
    attempted,  \* the upload methods tried so far, in order
    outcomes,   \* per method tried: whether it returned a result
    reqs,       \* the requests the call has sent, in order
    resultU,    \* what upload_file returned
    uploads     \* calls of upload_file so far

uploadVars == <<pcU, folderU, attempted, outcomes, reqs, resultU, uploads>>

\* EmbeddingClient.embed_texts (embedding_utils.py)
VARIABLES
    pcT,        \* where the running embed_texts call stands
    provider,   \* self.provider, the lower-cased EMBEDDING_PROVIDER
    usable,     \* per provider: configured (Azure, OpenAI) or installed (local)
    callsT,     \* the embedding calls the running call has made, in order
    resultT,    \* the provider whose embeddings were returned
    errorT,     \* what the call raised
    embeds      \* calls of embed_texts so far

provVars == <<pcT, provider, usable, callsT, resultT, errorT, embeds>>

\* The staging area and the Processed Texts, as extract_smart sees them
\* (extract_answers_smart.py)
VARIABLES
    staged,     \* per Local Document: the version and shape of its content
    libs,       \* which optional extraction libraries were imported
    processed,  \* PROCESSED_DIR: per key, the Processed Text if there is one
    pcX,        \* where the running extract_smart call stands
    all_files,  \* the files os.walk found, in walk order
    idxX,       \* position of the loop in all_files
    counts,     \* processed_count, skipped_count, failed_count
    visited,    \* the files the loop has been through, with what became of each
    written,    \* the keys the running call has written
    lastInput,  \* the staging area as the last completed call saw it
    repeat,     \* the running call sees the staging area the last one saw
    extracts    \* calls of extract_smart so far

extractVars == <<staged, libs, processed, pcX, all_files, idxX, counts, visited,
                 written, lastInput, repeat, extracts>>

\* embed_and_store (embed.py), the reindex tool (mcp_server.py) and the
\* retriever's in-memory index (retriever.py)
VARIABLES
    pcE,        \* where the running embed_and_store call stands
    chunks,     \* its list chunks
    vecs,       \* its list vecs
    batches,    \* the batches it has passed to embed_texts, in order
    store,      \* VECTOR_STORE_DIR: faiss_index.bin and chunks.pkl
    builds,     \* calls of embed_and_store so far
    lastBuild,  \* the Processed Texts and chunks of the last call that chunked
    pcR,        \* where the running reindex call stands
    memIndex,   \* retriever._index
    memChunks,  \* retriever._chunks
    sameLoad,   \* whether the index and the chunks held were read by one
                \* and the same load (FALSE while one of them is not held)
    reindexes   \* calls of reindex so far

indexVars == <<pcE, chunks, vecs, batches, store, builds, lastBuild, pcR,
               memIndex, memChunks, sameLoad, reindexes>>

pipeVars == <<extractVars, indexVars>>

\* One call into the retriever (retriever.py), through /ask (main.py,
\* llm_answer.py), directly, or as a reload request
VARIABLES
    pcQ,       \* where the running call stands
    entryQ,    \* how it came in: "ask", "retrieve" or "reload"
    question,  \* its argument query
    kQ,        \* its argument k
    readsQ,    \* the files of the store it has read, in order
    qv,        \* the query vector
    found,     \* what _index.search was asked and gave
    contextQ,  \* what retrieve_relevant_chunks returned
    llmCalls,  \* the messages it has sent to the language model, in order
    errorQ,    \* what it raised
    statusQ    \* the HTTP status /ask answered with

queryVars == <<pcQ, entryQ, question, kQ, readsQ, qv, found, contextQ, llmCalls,
               errorQ, statusQ>>

\* The answer of one /ask call (llm_answer.py)
VARIABLES
    reply,     \* resp.choices[0].message.content, the language model's text
    answerQ    \* what generate_answer returned

replyVars == <<reply, answerQ>>

\* One call of _normalize (embed.py, retriever.py)
VARIABLES
    pcN,       \* who called it: "idle", "store" or "query"
    mat,       \* its argument, a matrix of one vector per row
    unit       \* what it returned

normVars == <<pcN, mat, unit>>

\* The variables of the other components.
outsideFetch == <<authVars, listVars, uploadVars, provVars, pipeVars, queryVars,
                 replyVars, normVars>>

outsideAuth == <<fetchVars, listVars, uploadVars, provVars, pipeVars, queryVars,
                 replyVars, normVars>>

outsideList == <<fetchVars, authVars, uploadVars, provVars, pipeVars, queryVars,
                 replyVars, normVars>>

outsideUpload == <<fetchVars, authVars, listVars, provVars, pipeVars, queryVars,
                 replyVars, normVars>>

outsideProv == <<fetchVars, authVars, listVars, uploadVars, pipeVars, queryVars,
                 replyVars, normVars>>

outsidePipe == <<fetchVars, authVars, listVars, uploadVars, provVars, queryVars,
                 replyVars, normVars>>

\* max_retries of _download_with_retry.
MaxRetries == 3

ZeroStats == [total |-> 0, downloaded |-> 0, skipped |-> 0, failed |-> 0,
              redownloaded |-> 0]

\* No call before, or one that was forced, aborted, or left an item not
\* downloaded.
NoRun == [clean |-> FALSE, recursive |-> TRUE, total |-> 0, mtimes |-> <<>>]

File(item, kind) == [kind |-> kind, src |-> item.id, mtime |-> now]

NoPath == <<>>

None == 0

\* The authentication state while the model follows another component.
AuthAtRest ==
    /\ pcA = "idle"
    /\ cachedHeaders = None
    /\ cachedToken = None
    /\ tokenFile = FALSE
    /\ account = FALSE
    /\ issued = 0
    /\ method = "GET"
    /\ sent = <<>>
    /\ statuses = <<>>
    /\ acquired = <<>>
    /\ result = None
    /\ calls = 0

\* The listing state while the model follows another component.
ListAtRest ==
    /\ pcL = "idle"
    /\ folderL = "/"
    /\ recursiveL = FALSE
    /\ stack = <<>>
    /\ listResult = <<>>
    /\ failedL = {}
    /\ lists = 0

NoResult == [by |-> "none", status |-> None]

\* The upload state while the model follows another component.
UploadAtRest ==
    /\ pcU = "idle"
    /\ folderU = <<>>
    /\ attempted = <<>>
    /\ outcomes = <<>>
    /\ reqs = <<>>
    /\ resultU = NoResult
    /\ uploads = 0

\* ------------------------------------------------------ staged documents
\* The Local Documents: a.pdf, a.txt and c.bin in DOCS_DIR, b.docx in its
\* subdirectory s.
DocIds == 1..4

DocPath ==
    <<  <<"a", ".", "p", "d", "f">>,
        <<"a", ".", "t", "x", "t">>,
        <<"s", "/", "b", ".", "d", "o", "c", "x">>,
        <<"c", ".", "b", "i", "n">>  >>

\* The files of DOCS_DIR itself, and those of its subdirectories in the
\* order os.walk reaches them after it (top-down).
TopFiles == {1, 2, 4}

SubdirFiles == <<3>>

\* str.lower, over the letters the names use.
LowerOf(c) ==
    CASE c = "P" -> "p" [] c = "D" -> "d" [] c = "F" -> "f" [] c = "T" -> "t"
      [] c = "X" -> "x" [] OTHER -> c

Lower(s) == [i \in 1..Len(s) |-> LowerOf(s[i])]

\* The file name of a relative path (fn of os.walk).
basename(p) == SubSeq(p, LastIndexOf(p, "/") + 1, Len(p))

\* os.path.splitext(p)[0]: p without the extension of its last component.
SplitextRoot(p) ==
    LET dot == LastIndexOf(p, ".")
        sep == LastIndexOf(p, "/")
    IN IF dot > sep + 1 THEN SubSeq(p, 1, dot - 1) ELSE p

\* str.replace(c, r) for a one-character c.
RECURSIVE Replace(_, _, _)
Replace(str, c, r) ==
    IF str = <<>> THEN <<>>
    ELSE (IF Head(str) = c THEN r ELSE <<Head(str)>>) \o Replace(Tail(str), c, r)

Sep2 == <<"_", "_">>

\* Line 158: the key of a Local Document.
Base(d) == Replace(Replace(SplitextRoot(DocPath[d]), "\\", Sep2), "/", Sep2)

Keys == { Base(d) : d \in DocIds }

\* What a PDF holds: per page, whether PyMuPDF and whether pdfplumber get
\* non-whitespace text from it. "cover" is a PDF whose first page is an
\* image and whose second page is text; "scan" yields text to pdfplumber
\* only; "image" yields none; "empty" has no page; "broken" does not open.
PdfShapes == {"text", "cover", "scan", "image", "empty", "broken"}

Page(f, p) == [fitz |-> f, plumber |-> p]

PdfPages(shape) ==
    CASE shape = "text" -> <<Page(TRUE, TRUE), Page(TRUE, TRUE)>>
      [] shape = "cover" -> <<Page(FALSE, FALSE), Page(TRUE, TRUE)>>
      [] shape = "scan" -> <<Page(FALSE, TRUE), Page(FALSE, TRUE)>>
      [] shape = "image" -> <<Page(FALSE, FALSE)>>
      [] OTHER -> <<>>

\* What another file holds: "good" (text), "blank" (nothing but
\* whitespace) or "corrupt" (its extractor raises).
Shapes == {"good", "blank", "corrupt"}

\* A piece of extracted text: of which document and version, from which
\* page, by which extractor ("ws": whitespace only).
Unit(d, page, by) == [doc |-> d, ver |-> staged[d].ver, page |-> page, by |-> by]

\* text and text.strip()
HasText(text) == \E k \in 1..Len(text) : text[k].by # "ws"

\* The text one extractor gets from the pages of PDF d (lines 108-115,
\* 125-131): the pages that yield non-whitespace text, in page order.
PagesBy(d, by) ==
    LET pages == PdfPages(staged[d].shape)
        nums == SelectSeq([n \in 1..Len(pages) |-> n], LAMBDA n : pages[n][by])
    IN [k \in 1..Len(nums) |-> Unit(d, nums[k], by)]

\* _test_pdf_extraction, lines 72-100: whether the first page yields text.
_test_pdf_extraction(d) ==
    LET pages == PdfPages(staged[d].shape)
    IN /\ staged[d].shape # "broken"
       /\ Len(pages) > 0
       /\ \/ pages[1].fitz
          \/ libs.pdfplumber /\ pages[1].plumber

\* _extract_pdf_safe, lines 102-136.
_extract_pdf_safe(d) ==
    IF staged[d].shape = "broken" THEN <<>>
    ELSE IF HasText(PagesBy(d, "fitz")) THEN PagesBy(d, "fitz")
    ELSE IF libs.pdfplumber THEN PagesBy(d, "plumber")
    ELSE <<>>

\* The text a partitioner or reader gets from a file that is no PDF.
Plain(d, by) ==
    CASE staged[d].shape = "good" -> <<Unit(d, 1, by)>>
      [] staged[d].shape = "blank" -> <<Unit(d, 1, "ws")>>
      [] OTHER -> <<>>

Ext(str) == <<".">> \o str

HasExt(d, exts) == \E x \in exts : EndsWith(Lower(basename(DocPath[d])), Ext(x))

\* Line 193: the alternative file fp + ".docx" is staged.
AltStaged(d) == \E o \in DocIds : DocPath[o] = DocPath[d] \o Ext(<<"d", "o", "c", "x">>)

Outcome(known, go, text) == [known |-> known, should_process |-> go, text |-> text]

\* Lines 169-242: the dispatch on the extension; known is FALSE for a file
\* type that is skipped, should_process and text are as line 244 finds them.
Extraction(d) ==
    IF HasExt(d, {<<"p", "d", "f">>})
    THEN IF _test_pdf_extraction(d)
         THEN Outcome(TRUE, TRUE, _extract_pdf_safe(d))
         ELSE Outcome(TRUE, FALSE, <<>>)
    ELSE IF HasExt(d, {<<"d", "o", "c", "x">>}) /\ libs.unstructured
    THEN IF staged[d].shape # "corrupt"
         THEN Outcome(TRUE, TRUE, Plain(d, "unstructured"))
         ELSE IF AltStaged(d)
              THEN LET alt == CHOOSE o \in DocIds : DocPath[o] = DocPath[d] \o Ext(<<"d", "o", "c", "x">>)
                   IN Outcome(TRUE, staged[alt].shape # "corrupt", Plain(alt, "unstructured"))
              ELSE Outcome(TRUE, FALSE, <<>>)
    ELSE IF HasExt(d, {<<"p", "p", "t", "x">>, <<"p", "p", "t">>}) /\ libs.unstructured
    THEN Outcome(TRUE, staged[d].shape # "corrupt", Plain(d, "unstructured"))
    ELSE IF HasExt(d, {<<"t", "x", "t">>, <<"c", "s", "v">>, <<"h", "t", "m", "l">>})
    THEN Outcome(TRUE, TRUE, Plain(d, "read"))
    ELSE IF HasExt(d, {<<"x", "l", "s", "x">>, <<"x", "l", "s">>}) /\ libs.openpyxl
    THEN Outcome(TRUE, HasText(Plain(d, "openpyxl")), Plain(d, "openpyxl"))
    ELSE Outcome(FALSE, FALSE, <<>>)

\* A file of PROCESSED_DIR or of VECTOR_STORE_DIR that does not exist.
Absent == [exists |-> FALSE, build |-> 0, items |-> <<>>]

\* A Processed Text holding text.
TextFile(text) == [exists |-> TRUE, build |-> 0, items |-> text]

ZeroCounts == [processed |-> 0, skipped |-> 0, failed |-> 0]

NoInput == [seen |-> FALSE, staged |-> <<>>]

NoBuild == [seen |-> FALSE, processed |-> <<>>, chunks |-> <<>>]

\* The documents, every one in its first version and extractable.
PlainStaging ==
    [d \in DocIds |-> [ver |-> 1, shape |-> IF d = 1 THEN "text" ELSE "good"]]

AllLibs == [unstructured |-> TRUE, pdfplumber |-> TRUE, openpyxl |-> TRUE]

\* extract_smart while no call of it runs.
ExtractIdle ==
    /\ pcX = "idle"
    /\ all_files = <<>>
    /\ idxX = 1
    /\ counts = ZeroCounts
    /\ visited = <<>>
    /\ written = {}
    /\ lastInput = NoInput
    /\ repeat = FALSE
    /\ extracts = 0

\* embed_and_store while no call of it runs.
EmbedIdle ==
    /\ pcE = "idle"
    /\ chunks = <<>>
    /\ vecs = <<>>
    /\ batches = <<>>
    /\ builds = 0
    /\ lastBuild = NoBuild

NoVector == [of |-> 0, by |-> "none"]

NoSearch == [done |-> FALSE, k |-> 0, ids |-> <<>>]

\* The retriever while no call into it runs.
QueryIdle ==
    /\ pcQ = "idle"
    /\ entryQ = "none"
    /\ question = 0
    /\ kQ = 0
    /\ readsQ = <<>>
    /\ qv = NoVector
    /\ found = NoSearch
    /\ contextQ = <<>>
    /\ llmCalls = <<>>
    /\ errorQ = "none"
    /\ statusQ = 0
    /\ reply = <<>>
    /\ answerQ = <<>>

\* No call of _normalize under way.
NormIdle ==
    /\ pcN = "idle"
    /\ mat = <<>>
    /\ unit = <<>>

\* The reindex tool and the retriever in a process that has just started.
ToolIdle ==
    /\ pcR = "idle"
    /\ memIndex = Absent
    /\ memChunks = Absent
    /\ sameLoad = FALSE
    /\ reindexes = 0
    /\ QueryIdle
    /\ NormIdle

\* The pipeline while the model follows another component.
PipeAtRest ==
    /\ staged = PlainStaging
    /\ libs = AllLibs
    /\ processed = [k \in Keys |-> Absent]
    /\ store = [index |-> Absent, chunks |-> Absent]
    /\ ExtractIdle
    /\ EmbedIdle
    /\ ToolIdle

\* config.py line 13: EMBEDDING_PROVIDER defaults to "azure".
DefaultProvider == "azure"

\* The embedding client while the model follows another component: Azure is
\* configured, and no fallback is.
ProvAtRest ==
    /\ pcT = "idle"
    /\ provider = DefaultProvider
    /\ usable = [p \in {"azure", "openai", "local"} |-> p = "azure"]
    /\ callsT = <<>>
    /\ resultT = "none"
    /\ errorT = "none"
    /\ embeds = 0

InitFetch ==
    /\ now = 1
    /\ remoteMtime \in [ItemIds -> 0..1]
    /\ \A i \in ItemIds : i # 1 => remoteMtime[i] = 1
    /\ disk = [p \in Paths |-> NoFile]
    /\ pc = "idle"
    /\ force = FALSE
    /\ recursive = TRUE
    /\ items = <<>>
    /\ idx = 1
    /\ stats = ZeroStats
    /\ dest = NoPath
    /\ tried = <<>>
    /\ ret = FALSE
    /\ prior = NoFile
    /\ before = {}
    /\ prev = NoRun
    /\ runs = 0
    /\ AuthAtRest
    /\ ListAtRest
    /\ UploadAtRest
    /\ ProvAtRest
    /\ PipeAtRest

\* ------------------------------------------------------------ environment
Tick ==
    /\ pc = "idle"
    /\ now < MaxTime
    /\ now' = now + 1
    /\ UNCHANGED <<remoteMtime, disk, pc, force, recursive, items, idx, stats,
                   dest, tried, ret, prior, runs>>
    /\ UNCHANGED <<before, prev>>
    /\ UNCHANGED outsideFetch

\* The remote PDF is modified: its lastModifiedDateTime becomes the present.
RemoteModify ==
    /\ pc = "idle"
    /\ remoteMtime[1] # now
    /\ remoteMtime' = [remoteMtime EXCEPT ![1] = now]
    /\ UNCHANGED <<now, disk, pc, force, recursive, items, idx, stats,
                   dest, tried, ret, prior, runs>>
    /\ UNCHANGED <<before, prev>>
    /\ UNCHANGED outsideFetch

\* --------------------------------------------------- fetch_onedrive_folder
\* Lines 104-125: the listing succeeded and the statistics are zeroed.
StartRun ==
    /\ pc = "idle"
    /\ runs < MaxRuns
    /\ \E f \in BOOLEAN, r \in BOOLEAN :
          /\ force' = f
          /\ recursive' = r
          /\ items' = Listing(r, remoteMtime)
    /\ pc' = "loop"
    /\ idx' = 1
    /\ stats' = ZeroStats
    /\ runs' = runs + 1
    /\ UNCHANGED <<now, remoteMtime, disk, dest, tried, ret, prior>>
    /\ before' = { p \in Paths : _test_file_integrity(p, disk) }
    /\ UNCHANGED prev
    /\ UNCHANGED outsideFetch

\* Lines 116, 191-193: list_folder_items raises; the function returns
\* without a summary.
ListingFails ==
    /\ pc = "idle"
    /\ runs < MaxRuns
    /\ pc' = "aborted"
    /\ runs' = runs + 1
    /\ UNCHANGED <<now, remoteMtime, disk, force, recursive, items, idx, stats,
                   dest, tried, ret, prior>>
    /\ before' = { p \in Paths : _test_file_integrity(p, disk) }
    /\ UNCHANGED prev
    /\ UNCHANGED outsideFetch

InLoop == pc = "loop" /\ idx <= Len(items)

Current == items[idx]

\* Lines 129-130.
SkipFolder ==
    /\ InLoop
    /\ Current.folder
    /\ idx' = idx + 1
    /\ UNCHANGED <<now, remoteMtime, disk, pc, force, recursive, items, stats,
                   dest, tried, ret, prior, runs>>
    /\ UNCHANGED <<before, prev>>
    /\ UNCHANGED outsideFetch

\* Lines 132-136.
IsProtected(item) == _safe_name(item.name) \in Protected

\* Lines 136-138.
SkipProtected ==
    /\ InLoop
    /\ ~Current.folder
    /\ IsProtected(Current)
    /\ idx' = idx + 1
    /\ UNCHANGED <<now, remoteMtime, disk, pc, force, recursive, items, stats,
                   dest, tried, ret, prior, runs>>
    /\ UNCHANGED <<before, prev>>
    /\ UNCHANGED outsideFetch

\* Mutant: the comparison of the times is turned round.
UpToDateIfOlder(item, path) ==
    /\ disk[path] # NoFile
    /\ item.mtime # 0
    /\ disk[path].mtime < item.mtime

\* Lines 157-164: a local copy exists, the remote item carries a
\* modification time, and the local one is at least as new.
UpToDate(item, path) ==
    /\ disk[path] # NoFile
    /\ item.mtime # 0
    /\ disk[path].mtime >= item.mtime

\* Mutant: the local copy must be strictly newer, and is not checked.
ShouldSkipStrict(item, path) ==
    /\ ~force
    /\ disk[path] # NoFile
    /\ item.mtime # 0
    /\ disk[path].mtime > item.mtime

\* Lines 155-177: the item is skipped ("continue" at line 169).
ShouldSkip(item, path) ==
    /\ ~force
    /\ UpToDate(item, path)
    /\ _test_file_integrity(path, disk)

\* Lines 170-173: counted as re-downloaded because the local copy is corrupt.
CountsRedownload(item, path) ==
    /\ ~force
    /\ UpToDate(item, path)
    /\ ~_test_file_integrity(path, disk)

IsCandidate == InLoop /\ ~Current.folder /\ ~IsProtected(Current)

\* Lines 140-169.
SkipUpToDate ==
    /\ IsCandidate
    /\ ShouldSkip(Current, DestPath(Current, recursive))
    /\ stats' = [stats EXCEPT !.total = @ + 1, !.skipped = @ + 1]
    /\ idx' = idx + 1
    /\ UNCHANGED <<now, remoteMtime, disk, pc, force, recursive, items,
                   dest, tried, ret, prior, runs>>
    /\ UNCHANGED <<before, prev>>
    /\ UNCHANGED outsideFetch

\* Lines 140-186: the item is to be downloaded; an existing file is removed
\* and _download_with_retry is entered.
BeginDownload ==
    /\ IsCandidate
    /\ ~ShouldSkip(Current, DestPath(Current, recursive))
    /\ dest' = DestPath(Current, recursive)
    /\ prior' = disk[DestPath(Current, recursive)]
    /\ stats' = [stats EXCEPT
                   !.total = @ + 1,
                   !.redownloaded =
                       IF CountsRedownload(Current, DestPath(Current, recursive))
                       THEN @ + 1 ELSE @]
    /\ disk' = [disk EXCEPT ![DestPath(Current, recursive)] = NoFile]
    /\ tried' = <<>>
    /\ pc' = "download"
    /\ UNCHANGED <<now, remoteMtime, force, recursive, items, idx, ret, runs>>
    /\ UNCHANGED <<before, prev>>
    /\ UNCHANGED outsideFetch

\* ----------------------------------------------------- _download_with_retry
\* Mutant: the loop has no budget.
AfterFailureNoBudget(how) ==
    /\ tried' = Append(tried, how)
    /\ pc' = "download"
    /\ ret' = ret

\* Mutant: the loop bound is off by one.
AfterFailureOffByOne(how) ==
    /\ tried' = Append(tried, how)
    /\ IF Len(tried) + 1 <= MaxRetries
       THEN pc' = "download" /\ ret' = ret
       ELSE pc' = "returned" /\ ret' = FALSE

\* Lines 77-82 and 86-91: after a failed attempt the loop goes on while
\* attempts remain, and returns False after the last one.
AfterFailure(how) ==
    /\ tried' = Append(tried, how)
    /\ IF Len(tried) + 1 < MaxRetries
       THEN pc' = "download" /\ ret' = ret
       ELSE pc' = "returned" /\ ret' = FALSE

\* Line 60 raises: download_file failed; or line 63 raises: the file could
\* not be opened for writing.  Nothing is written.
AttemptRaises ==
    /\ pc = "download"
    /\ AfterFailure("raised")
    /\ UNCHANGED <<now, remoteMtime, disk, force, recursive, items, idx, stats,
                   dest, prior, runs>>
    /\ UNCHANGED <<before, prev>>
    /\ UNCHANGED outsideFetch

\* Line 64 raises: the file was created and the write failed part-way; the
\* except branch (lines 84-91) leaves what was written in place.
AttemptWriteFails ==
    /\ pc = "download"
    /\ \E left \in {"empty", "bad"} :
          disk' = [disk EXCEPT ![dest] = File(Current, left)]
    /\ AfterFailure("writefail")
    /\ UNCHANGED <<now, remoteMtime, force, recursive, items, idx, stats,
                   dest, prior, runs>>
    /\ UNCHANGED <<before, prev>>
    /\ UNCHANGED outsideFetch

Written(k) == [disk EXCEPT ![dest] = File(Current, k)]

\* Lines 60-70: the content is written and passes the integrity check.
AttemptSucceeds ==
    /\ pc = "download"
    /\ \E k \in Kinds :
          /\ _test_file_integrity(dest, Written(k))
          /\ disk' = Written(k)
    /\ tried' = Append(tried, "ok")
    /\ pc' = "returned"
    /\ ret' = TRUE
    /\ UNCHANGED <<now, remoteMtime, force, recursive, items, idx, stats,
                   dest, prior, runs>>
    /\ UNCHANGED <<before, prev>>
    /\ UNCHANGED outsideFetch

\* Lines 60-67, 71-82: the content is written, fails the integrity check
\* and is removed.
AttemptCorrupt ==
    /\ pc = "download"
    /\ \E k \in Kinds : ~_test_file_integrity(dest, Written(k))
    /\ disk' = [disk EXCEPT ![dest] = NoFile]
    /\ AfterFailure("corrupt")
    /\ UNCHANGED <<now, remoteMtime, force, recursive, items, idx, stats,
                   dest, prior, runs>>
    /\ UNCHANGED <<before, prev>>
    /\ UNCHANGED outsideFetch

\* Mutant: only a download that succeeded is counted.
CountedOnSuccess(st, ok) ==
    IF ok THEN [st EXCEPT !.downloaded = @ + 1] ELSE st

\* Lines 186-189: the item is counted as downloaded or as failed.
Counted(st, ok) ==
    IF ok THEN [st EXCEPT !.downloaded = @ + 1]
    ELSE [st EXCEPT !.failed = @ + 1]

\* Lines 186-189: the caller counts the item and turns to the next one.
Account ==
    /\ pc = "returned"
    /\ stats' = Counted(stats, ret)
    /\ idx' = idx + 1
    /\ pc' = "loop"
    /\ dest' = NoPath
    /\ tried' = <<>>
    /\ ret' = FALSE
    /\ prior' = NoFile
    /\ UNCHANGED <<now, remoteMtime, disk, force, recursive, items, runs>>
    /\ UNCHANGED <<before, prev>>
    /\ UNCHANGED outsideFetch

\* Lines 195-211: the loop is over and the summary is printed.
Summary ==
    /\ pc = "loop"
    /\ idx > Len(items)
    /\ pc' = "done"
    /\ UNCHANGED <<now, remoteMtime, disk, force, recursive, items, idx, stats,
                   dest, tried, ret, prior, runs>>
    /\ UNCHANGED <<before, prev>>
    /\ UNCHANGED outsideFetch

\* Lines 193 and 211: the function returns and its locals are gone.
Return ==
    /\ pc \in {"done", "aborted"}
    /\ pc' = "idle"
    /\ items' = <<>>
    /\ idx' = 1
    /\ stats' = ZeroStats
    /\ force' = FALSE
    /\ recursive' = TRUE
    /\ UNCHANGED <<now, remoteMtime, disk, dest, tried, ret, prior, runs>>
    /\ before' = {}
    /\ prev' = IF pc = "done" /\ ~force /\ stats.downloaded = stats.total
               THEN [clean |-> TRUE, recursive |-> recursive,
                     total |-> stats.total, mtimes |-> remoteMtime]
               ELSE NoRun
    /\ UNCHANGED outsideFetch

NextFetch ==
    \/ Tick
    \/ RemoteModify
    \/ StartRun
    \/ ListingFails
    \/ SkipFolder
    \/ SkipProtected
    \/ SkipUpToDate
    \/ BeginDownload
    \/ AttemptRaises
    \/ AttemptWriteFails
    \/ AttemptSucceeds
    \/ AttemptCorrupt
    \/ Account
    \/ Summary
    \/ Return

vars == <<fetchVars, authVars, listVars, uploadVars, provVars, pipeVars, queryVars,
          replyVars, normVars>>

SpecFetch == InitFetch /\ [][NextFetch]_vars

\* ============================================ _make_authenticated_request
\* Calls of _make_authenticated_request in one behaviour.
MaxCalls == 2
\* Tokens the identity provider issues in one behaviour.
MaxTokens == 3

Methods == {"GET", "PUT", "POST", "DELETE"}

Supported == {"GET", "PUT", "POST"}

Statuses == {200, 401, 404}

\* The staging state while the model follows another component.
FetchAtRest ==
    /\ now = 1
    /\ remoteMtime = [i \in ItemIds |-> 1]
    /\ disk = [p \in Paths |-> NoFile]
    /\ pc = "idle"
    /\ force = FALSE
    /\ recursive = TRUE
    /\ items = <<>>
    /\ idx = 1
    /\ stats = ZeroStats
    /\ dest = NoPath
    /\ tried = <<>>
    /\ ret = FALSE
    /\ prior = NoFile
    /\ before = {}
    /\ prev = NoRun
    /\ runs = 0

\* The process starts with nothing cached in memory; the MSAL application
\* holds an account exactly when a token cache file was left by an earlier
\* process.
InitAuth ==
    /\ pcA = "idle"
    /\ cachedHeaders = None
    /\ cachedToken = None
    /\ account \in BOOLEAN
    /\ tokenFile = account
    /\ issued = IF account THEN 1 ELSE 0
    /\ method = "GET"
    /\ sent = <<>>
    /\ statuses = <<>>
    /\ acquired = <<>>
    /\ result = None
    /\ calls = 0
    /\ FetchAtRest
    /\ ListAtRest
    /\ UploadAtRest
    /\ ProvAtRest
    /\ PipeAtRest

\* Line 17: a call begins.
BeginCall ==
    /\ pcA \in {"idle", "returned", "raised"}
    /\ calls < MaxCalls
    /\ calls' = calls + 1
    /\ \E m \in Methods : method' = m
    /\ pcA' = "headers"
    /\ sent' = <<>>
    /\ statuses' = <<>>
    /\ acquired' = <<>>
    /\ result' = None
    /\ UNCHANGED <<cachedHeaders, cachedToken, tokenFile, account, issued>>
    /\ UNCHANGED outsideAuth

GettingHeaders == pcA \in {"headers", "refresh"}

\* Where the call goes once _get_headers has returned (lines 21 and 39).
AfterHeaders == IF pcA = "headers" THEN "send1" ELSE "send2"

\* _get_headers, lines 12-15: the cached headers are used.
UseCachedHeaders ==
    /\ GettingHeaders
    /\ cachedHeaders # None
    /\ pcA' = AfterHeaders
    /\ UNCHANGED <<cachedHeaders, cachedToken, tokenFile, account, issued, method,
                   sent, statuses, acquired, result, calls>>
    /\ UNCHANGED outsideAuth

\* get_access_token returned token t (auth.py lines 69-72 and 102-109).
Obtain(t) ==
    /\ cachedToken' = t
    /\ cachedHeaders' = t
    /\ acquired' = Append(acquired, [at |-> pcA, token |-> t])
    /\ pcA' = AfterHeaders

\* get_access_token, auth.py lines 64-72: silent acquisition answers with
\* the token the application holds or with a refreshed one.
AcquireSilent ==
    /\ GettingHeaders
    /\ cachedHeaders = None
    /\ account
    /\ \E t \in {issued, issued + 1} :
          /\ t <= MaxTokens
          /\ issued' = t
          /\ Obtain(t)
    /\ tokenFile' = TRUE
    /\ UNCHANGED <<account, method, sent, statuses, result, calls>>
    /\ UNCHANGED outsideAuth

\* get_access_token, auth.py lines 76-109: the sign-in flow yields a new
\* token; the cache file is written on one side of the unresolved merge
\* (line 105) and not on the other.
AcquireByFlow ==
    /\ GettingHeaders
    /\ cachedHeaders = None
    /\ issued < MaxTokens
    /\ issued' = issued + 1
    /\ Obtain(issued + 1)
    /\ account' = TRUE
    /\ \E saved \in BOOLEAN : tokenFile' = (tokenFile \/ saved)
    /\ UNCHANGED <<method, sent, statuses, result, calls>>
    /\ UNCHANGED outsideAuth

\* get_access_token raises (auth.py lines 85 and 100); the call raises.
AcquireFails ==
    /\ GettingHeaders
    /\ cachedHeaders = None
    /\ pcA' = "raised"
    /\ UNCHANGED <<cachedHeaders, cachedToken, tokenFile, account, issued, method,
                   sent, statuses, acquired, result, calls>>
    /\ UNCHANGED outsideAuth

\* Lines 31-32: ValueError for an unsupported method.
RejectMethod ==
    /\ pcA = "send1"
    /\ method \notin Supported
    /\ pcA' = "raised"
    /\ UNCHANGED <<cachedHeaders, cachedToken, tokenFile, account, issued, method,
                   sent, statuses, acquired, result, calls>>
    /\ UNCHANGED outsideAuth

Sending == pcA \in {"send1", "send2"} /\ method \in Supported

\* Lines 25-30 and 43-48: a request is sent and answered; a 401 to the
\* first request leads to the refresh (line 35).
SendRequest ==
    /\ Sending
    /\ sent' = Append(sent, cachedHeaders)
    /\ \E s \in Statuses :
          /\ statuses' = Append(statuses, s)
          /\ pcA' = IF pcA = "send1" /\ s = 401 THEN "expired" ELSE "respond"
    /\ UNCHANGED <<cachedHeaders, cachedToken, tokenFile, account, issued, method,
                   acquired, result, calls>>
    /\ UNCHANGED outsideAuth

\* The request raises (no response arrives); the call raises.
SendRaises ==
    /\ Sending
    /\ sent' = Append(sent, cachedHeaders)
    /\ pcA' = "raised"
    /\ UNCHANGED <<cachedHeaders, cachedToken, tokenFile, account, issued, method,
                   statuses, acquired, result, calls>>
    /\ UNCHANGED outsideAuth

\* Mutant: the cached headers survive the 401.
InvalidateKeepsHeaders ==
    /\ pcA = "expired"
    /\ cachedToken' = None
    /\ tokenFile' = FALSE
    /\ pcA' = "refresh"
    /\ UNCHANGED <<cachedHeaders, account, issued, method, sent, statuses, acquired,
                   result, calls>>
    /\ UNCHANGED outsideAuth

\* Lines 35-38 and clear_token_cache (auth.py lines 111-126): the cached
\* headers and the cached token are dropped; the cache file is removed
\* unless its removal fails (lines 121-122).  The MSAL application keeps
\* its account: line 126 rebinds the module's _token_cache only.
Invalidate ==
    /\ pcA = "expired"
    /\ cachedHeaders' = None
    /\ cachedToken' = None
    /\ \E removed \in BOOLEAN : tokenFile' = (tokenFile /\ ~removed)
    /\ pcA' = "refresh"
    /\ UNCHANGED <<account, issued, method, sent, statuses, acquired, result, calls>>
    /\ UNCHANGED outsideAuth

\* Line 50.
ReturnResponse ==
    /\ pcA = "respond"
    /\ result' = statuses[Len(statuses)]
    /\ pcA' = "returned"
    /\ UNCHANGED <<cachedHeaders, cachedToken, tokenFile, account, issued, method,
                   sent, statuses, acquired, calls>>
    /\ UNCHANGED outsideAuth

NextAuth ==
    \/ BeginCall
    \/ UseCachedHeaders
    \/ AcquireSilent
    \/ AcquireByFlow
    \/ AcquireFails
    \/ RejectMethod
    \/ SendRequest
    \/ SendRaises
    \/ Invalidate
    \/ ReturnResponse

SpecAuth == InitAuth /\ [][NextAuth]_vars

\* ====================================================== list_folder_items
\* Calls of list_folder_items in one behaviour.
MaxLists == 2

FileItem(n) == [name |-> n, folder |-> FALSE]

FolderItem(n) == [name |-> n, folder |-> TRUE]

Root == "/"

Folders == {Root, "A", "AA", "B"}

\* The pages the server offers for the children of each folder; every page
\* but the last carries an @odata.nextLink to the next one.
Pages ==
    [f \in Folders |->
        CASE f = Root -> << <<FileItem("f1"), FolderItem("A")>>,
                            <<FolderItem("B"), FileItem("f2")>> >>
          [] f = "A"  -> << <<FileItem("a1"), FolderItem("AA")>>,
                            <<FileItem("a2")>> >>
          [] f = "AA" -> << <<FileItem("x1")>> >>
          [] f = "B"  -> << <<FileItem("b1")>> >>]

\* A call of _list_folder_recursive (or, non-recursive, of
\* _list_folder_single): the folder, _current_path, the page the next
\* request asks for (0: no link is left), the items gathered from the pages,
\* whether they have been partitioned, the subfolders still to visit, and
\* all_items.
Frame(f, path) ==
    [folder |-> f, path |-> path, page |-> 1, got |-> <<>>, parted |-> FALSE,
     queue |-> <<>>, out |-> <<>>]

Top == stack[Len(stack)]

SetTop(fr) == [stack EXCEPT ![Len(stack)] = fr]

RECURSIVE SelectSeq2(_, _)
\* The items of s that are folders (want = TRUE) or files (want = FALSE).
SelectSeq2(s, want) ==
    IF s = <<>> THEN <<>>
    ELSE IF Head(s).folder = want THEN <<Head(s)>> \o SelectSeq2(Tail(s), want)
    ELSE SelectSeq2(Tail(s), want)

\* Lines 120-125: the item with its _relative_path.
WithRel(path, s) == [i \in 1..Len(s) |->
                        [name |-> s[i].name, folder |-> s[i].folder,
                         rel |-> Append(path, s[i].name)]]

\* Lines 63-76: the call begins with the request for the drive.
BeginList ==
    /\ pcL \in {"idle", "returned", "raised"}
    /\ lists < MaxLists
    /\ lists' = lists + 1
    /\ \E f \in Folders, r \in BOOLEAN : folderL' = f /\ recursiveL' = r
    /\ pcL' = "drive"
    /\ stack' = <<>>
    /\ listResult' = <<>>
    /\ failedL' = {}
    /\ UNCHANGED outsideList

\* Lines 69-73: the drive request is not answered 200; the call raises.
DriveFails ==
    /\ pcL = "drive"
    /\ pcL' = "raised"
    /\ UNCHANGED <<folderL, recursiveL, stack, listResult, failedL, lists>>
    /\ UNCHANGED outsideList

\* Lines 75-81: the drive answered; the folder asked for is listed.
DriveAnswers ==
    /\ pcL = "drive"
    /\ pcL' = "listing"
    /\ stack' = <<Frame(folderL, <<>>)>>
    /\ UNCHANGED <<folderL, recursiveL, listResult, failedL, lists>>
    /\ UNCHANGED outsideList

Paging == pcL = "listing" /\ Top.page # 0

\* Mutant: the continuation link is not followed.
FetchPageFirstOnly ==
    /\ Paging
    /\ stack' = SetTop([Top EXCEPT
                          !.got = @ \o Pages[Top.folder][Top.page],
                          !.page = 0])
    /\ UNCHANGED <<pcL, folderL, recursiveL, listResult, failedL, lists>>
    /\ UNCHANGED outsideList

\* _list_folder_single, lines 95-103: one page is requested and answered
\* 200; its items are appended and its continuation link becomes the url.
FetchPage ==
    /\ Paging
    /\ stack' = SetTop([Top EXCEPT
                          !.got = @ \o Pages[Top.folder][Top.page],
                          !.page = IF Top.page < Len(Pages[Top.folder])
                                   THEN Top.page + 1 ELSE 0])
    /\ UNCHANGED <<pcL, folderL, recursiveL, listResult, failedL, lists>>
    /\ UNCHANGED outsideList

\* Mutant: a failing subfolder is not caught.
PageFailsUncaught ==
    /\ Paging
    /\ failedL' = failedL \cup {Top.folder}
    /\ pcL' = "raised"
    /\ stack' = <<>>
    /\ UNCHANGED <<folderL, recursiveL, listResult, lists>>
    /\ UNCHANGED outsideList

\* Line 100 raises: a page request fails.  The exception leaves
\* _list_folder_single and the call of _list_folder_recursive that made it;
\* the caller's except branch (lines 145-147) goes on with the next
\* subfolder, and the outermost call raises.
PageFails ==
    /\ Paging
    /\ failedL' = failedL \cup {Top.folder}
    /\ IF Len(stack) = 1
       THEN pcL' = "raised" /\ stack' = <<>>
       ELSE pcL' = pcL /\ stack' = SubSeq(stack, 1, Len(stack) - 1)
    /\ UNCHANGED <<folderL, recursiveL, listResult, lists>>
    /\ UNCHANGED outsideList

\* Lines 81 and 105: the non-recursive call returns the items of the pages.
ReturnSingle ==
    /\ pcL = "listing"
    /\ ~recursiveL
    /\ Top.page = 0
    /\ listResult' = Top.got
    /\ pcL' = "returned"
    /\ stack' = <<>>
    /\ UNCHANGED <<folderL, recursiveL, failedL, lists>>
    /\ UNCHANGED outsideList

\* Lines 116-133: the items get their _relative_path and are split; the
\* files go to all_items.
Partition ==
    /\ pcL = "listing"
    /\ recursiveL
    /\ Top.page = 0
    /\ ~Top.parted
    /\ stack' = SetTop([Top EXCEPT
                          !.parted = TRUE,
                          !.out = SelectSeq2(WithRel(Top.path, Top.got), FALSE),
                          !.queue = SelectSeq2(WithRel(Top.path, Top.got), TRUE)])
    /\ UNCHANGED <<pcL, folderL, recursiveL, listResult, failedL, lists>>
    /\ UNCHANGED outsideList

\* Lines 136-143: the next subfolder is entered.
Descend ==
    /\ pcL = "listing"
    /\ Top.parted
    /\ Top.queue # <<>>
    /\ stack' = Append(SetTop([Top EXCEPT !.queue = Tail(@)]),
                       Frame(Head(Top.queue).name, Head(Top.queue).rel))
    /\ UNCHANGED <<pcL, folderL, recursiveL, listResult, failedL, lists>>
    /\ UNCHANGED outsideList

\* Lines 144 and 149: a call returns all_items, which its caller appends to
\* its own; the outermost call returns them from list_folder_items.
ReturnUp ==
    /\ pcL = "listing"
    /\ Top.parted
    /\ Top.queue = <<>>
    /\ IF Len(stack) = 1
       THEN /\ listResult' = Top.out
            /\ pcL' = "returned"
            /\ stack' = <<>>
       ELSE /\ stack' = [SubSeq(stack, 1, Len(stack) - 1) EXCEPT
                           ![Len(stack) - 1].out = @ \o Top.out]
            /\ UNCHANGED <<pcL, listResult>>
    /\ UNCHANGED <<folderL, recursiveL, failedL, lists>>
    /\ UNCHANGED outsideList

NextList ==
    \/ BeginList
    \/ DriveFails
    \/ DriveAnswers
    \/ FetchPage
    \/ PageFails
    \/ ReturnSingle
    \/ Partition
    \/ Descend
    \/ ReturnUp

InitList == ListAtRest /\ FetchAtRest /\ AuthAtRest /\ UploadAtRest /\ ProvAtRest /\ PipeAtRest

SpecList == InitList /\ [][NextList]_vars

\* ============================================================ upload_file
\* Calls of upload_file in one behaviour.
MaxUploads == 2

\* Destination folders: the root, /B and /B/S.
UploadFolders == {<<>>, <<"B">>, <<"B", "S">>}

\* What a request may be answered with (0: the request raised).
Answers == {0, 200, 201, 404}

Success == {200, 201}

\* Lines 266-270.
Methods3 == <<"Path-based simple", "Path-based children", "ID-based">>

\* A request as the log keeps it: "content" (a PUT of the file's bytes),
\* "create" (the POST of a file item) or "check" (the GET of the folder).
Req(kind, a) == [kind |-> kind, path |-> folderU, ok |-> a \in Success]

\* Lines 237-263: the call begins; the local file exists (both callers
\* check, upload_to_onedrive.py line 29 and consolidate_and_update.py
\* line 28) and is read.
BeginUpload ==
    /\ pcU \in {"idle", "succeeded", "failed"}
    /\ uploads < MaxUploads
    /\ uploads' = uploads + 1
    /\ \E f \in UploadFolders : folderU' = f
    /\ pcU' = "simple"
    /\ attempted' = <<>>
    /\ outcomes' = <<>>
    /\ reqs' = <<>>
    /\ resultU' = NoResult
    /\ UNCHANGED outsideUpload

\* Lines 276-280: the method returned a result, which upload_file returns.
Succeed(m, a) ==
    /\ outcomes' = Append(outcomes, TRUE)
    /\ resultU' = [by |-> m, status |-> a]
    /\ pcU' = "succeeded"

\* Mutant: a failed method ends the call.
GiveUpAtOnce(next) ==
    /\ outcomes' = Append(outcomes, FALSE)
    /\ pcU' = "failed"
    /\ UNCHANGED resultU

\* Lines 281-285: the method raised; the next one is tried, and after the
\* last one upload_file raises.
GiveUp(next) ==
    /\ outcomes' = Append(outcomes, FALSE)
    /\ pcU' = next
    /\ UNCHANGED resultU

\* _upload_via_path_simple, lines 288-303: one PUT of the content.
UploadSimple ==
    /\ pcU = "simple"
    /\ attempted' = Append(attempted, Methods3[1])
    /\ \E a \in Answers :
          /\ reqs' = Append(reqs, Req("content", a))
          /\ IF a \in Success THEN Succeed(Methods3[1], a) ELSE GiveUp("children")
    /\ UNCHANGED <<folderU, uploads>>
    /\ UNCHANGED outsideUpload

\* _upload_via_path_children, lines 306-334: the POST that creates the item.
UploadChildrenCreate ==
    /\ pcU = "children"
    /\ attempted' = Append(attempted, Methods3[2])
    /\ \E a \in Answers :
          /\ reqs' = Append(reqs, Req("create", a))
          /\ IF a \in Success
             THEN pcU' = "children_put" /\ UNCHANGED <<outcomes, resultU>>
             ELSE GiveUp("folder_id")
    /\ UNCHANGED <<folderU, uploads>>
    /\ UNCHANGED outsideUpload

\* _upload_via_path_children, lines 337-347: the PUT that fills the item.
UploadChildrenFill ==
    /\ pcU = "children_put"
    /\ \E a \in Answers :
          /\ reqs' = Append(reqs, Req("content", a))
          /\ IF a \in Success THEN Succeed(Methods3[2], a) ELSE GiveUp("folder_id")
    /\ UNCHANGED <<folderU, attempted, uploads>>
    /\ UNCHANGED outsideUpload

\* _upload_via_folder_id, lines 352-354, and _get_folder_id, lines 378-400:
\* the GET of the folder; without an id the method raises.
UploadFolderIdLookup ==
    /\ pcU = "folder_id"
    /\ attempted' = Append(attempted, Methods3[3])
    /\ \E a \in Answers :
          /\ reqs' = Append(reqs, Req("check", a))
          /\ IF a = 200
             THEN pcU' = "folder_id_put" /\ UNCHANGED <<outcomes, resultU>>
             ELSE GiveUp("failed")
    /\ UNCHANGED <<folderU, uploads>>
    /\ UNCHANGED outsideUpload

\* _upload_via_folder_id, lines 356-365: the PUT of the content.
UploadFolderIdPut ==
    /\ pcU = "folder_id_put"
    /\ \E a \in Answers :
          /\ reqs' = Append(reqs, Req("content", a))
          /\ IF a \in Success THEN Succeed(Methods3[3], a) ELSE GiveUp("failed")
    /\ UNCHANGED <<folderU, attempted, uploads>>
    /\ UNCHANGED outsideUpload

NextUpload ==
    \/ BeginUpload
    \/ UploadSimple
    \/ UploadChildrenCreate
    \/ UploadChildrenFill
    \/ UploadFolderIdLookup
    \/ UploadFolderIdPut

InitUpload == UploadAtRest /\ FetchAtRest /\ AuthAtRest /\ ListAtRest /\ ProvAtRest /\ PipeAtRest

SpecUpload == InitUpload /\ [][NextUpload]_vars

\* ============================================================ embed_texts
\* Calls of embed_texts in one behaviour.
MaxEmbeds == 2

\* The providers in the order embed_texts reaches them (lines 52, 65, 78).
Chain == <<"azure", "openai", "local">>

\* The setting that names each provider.
Setting(p) == IF p = "local" THEN "sentence-transformers" ELSE p

\* Values of EMBEDDING_PROVIDER: the three providers, "auto", and a value
\* that names none of them.
Settings == {"azure", "openai", "sentence-transformers", "auto", "other"}

\* Mutant: a block is entered only for its own setting.
EligibleOwnOnly(p) == provider = Setting(p)

\* Lines 53, 66, 79: the settings under which the block of provider p is
\* entered.
Eligible(p) ==
    CASE p = "azure" -> provider \in {"azure", "auto"}
      [] p = "openai" -> provider \in {"openai", "auto", "azure"}
      [] p = "local" -> provider \in {"sentence-transformers", "auto", "azure", "openai"}

\* Mutant: no failure is re-raised.
ReraisesNever(p) == FALSE

\* Lines 62, 75, 88: the failure of provider p is re-raised.
Reraises(p) == provider = Setting(p)

\* Where embed_texts goes after the block of provider p.
After(p) ==
    CASE p = "azure" -> "openai"
      [] p = "openai" -> "local"
      [] p = "local" -> "none_left"

InitProv ==
    /\ pcT = "idle"
    /\ provider \in Settings
    /\ usable \in [{"azure", "openai", "local"} -> BOOLEAN]
    /\ callsT = <<>>
    /\ resultT = "none"
    /\ errorT = "none"
    /\ embeds = 0
    /\ FetchAtRest
    /\ AuthAtRest
    /\ ListAtRest
    /\ UploadAtRest
    /\ PipeAtRest

\* Line 48: a call begins.
BeginEmbedTexts ==
    /\ pcT \in {"idle", "returned", "raised"}
    /\ embeds < MaxEmbeds
    /\ embeds' = embeds + 1
    /\ pcT' = "azure"
    /\ callsT' = <<>>
    /\ resultT' = "none"
    /\ errorT' = "none"
    /\ UNCHANGED <<provider, usable>>
    /\ UNCHANGED outsideProv

\* The block of provider p (lines 53-63, 66-76, 79-89): skipped unless the
\* setting admits it and the provider is usable; otherwise the provider is
\* called, and its embeddings are returned or its failure is re-raised or
\* swallowed.
Block(p) ==
    /\ IF Eligible(p) /\ usable[p]
       THEN \E ok \in BOOLEAN :
              /\ callsT' = Append(callsT, [to |-> p, ok |-> ok])
              /\ IF ok
                 THEN pcT' = "returned" /\ resultT' = p /\ UNCHANGED errorT
                 ELSE IF Reraises(p)
                      THEN pcT' = "raised" /\ errorT' = p /\ UNCHANGED resultT
                      ELSE pcT' = After(p) /\ UNCHANGED <<resultT, errorT>>
       ELSE pcT' = After(p) /\ UNCHANGED <<callsT, resultT, errorT>>
    /\ UNCHANGED <<provider, usable, embeds>>
    /\ UNCHANGED outsideProv

TryAzure == pcT = "azure" /\ Block("azure")

TryOpenAI == pcT = "openai" /\ Block("openai")

TryLocal == pcT = "local" /\ Block("local")

\* Line 91: no provider returned; RuntimeError.
NoProvider ==
    /\ pcT = "none_left"
    /\ pcT' = "raised"
    /\ errorT' = "no_provider"
    /\ UNCHANGED <<provider, usable, callsT, resultT, embeds>>
    /\ UNCHANGED outsideProv

NextProv ==
    \/ BeginEmbedTexts
    \/ TryAzure
    \/ TryOpenAI
    \/ TryLocal
    \/ NoProvider

SpecProv == InitProv /\ [][NextProv]_vars

\* ========================================================== extract_smart
\* Calls of extract_smart in one behaviour.
MaxExtracts == 2

\* Versions a Local Document's content goes through.
MaxVer == 2

\* The Local Documents whose remote item changes and is downloaded again.
Changing == {2}

\* The orders in which a directory listing can give the elements of S.
Perms(S) ==
    { f \in [1..Cardinality(S) -> S] : \A i, j \in 1..Cardinality(S) : f[i] = f[j] => i = j }

\* Lines 147-153: os.walk gives the files of DOCS_DIR in the order of its
\* listing, which is arbitrary, and then those of the subdirectories.
WalkOrders == { o \o SubdirFiles : o \in Perms(TopFiles) }

InitExtract ==
    /\ staged \in [DocIds -> [ver : {1}, shape : PdfShapes \cup Shapes]]
    /\ staged[1].shape \in PdfShapes
    /\ staged[2].shape \in {"good", "blank"}
    /\ staged[3].shape \in {"good", "corrupt"}
    /\ staged[4].shape = "good"
    /\ libs \in [unstructured : BOOLEAN, pdfplumber : BOOLEAN, openpyxl : {TRUE}]
    /\ processed = [k \in Keys |-> Absent]
    /\ store = [index |-> Absent, chunks |-> Absent]
    /\ ExtractIdle
    /\ EmbedIdle
    /\ ToolIdle
    /\ FetchAtRest
    /\ AuthAtRest
    /\ ListAtRest
    /\ UploadAtRest
    /\ ProvAtRest

\* ingest_onedrive.py lines 179-189: the remote item of Local Document d
\* changed, and ingestion replaced the staged file by the new content.
Restage ==
    /\ pcX = "idle" /\ pcE = "idle" /\ pcR = "idle"
    /\ \E d \in Changing :
          /\ staged[d].ver < MaxVer
          /\ staged' = [staged EXCEPT ![d].ver = @ + 1]
    /\ UNCHANGED <<libs, processed, pcX, all_files, idxX, counts, visited,
                   written, lastInput, repeat, extracts>>
    /\ UNCHANGED indexVars
    /\ UNCHANGED outsidePipe

\* Lines 138-155: the counters are zeroed and the files are collected.
StartExtract ==
    /\ extracts' = extracts + 1
    /\ \E o \in WalkOrders : all_files' = o
    /\ idxX' = 1
    /\ counts' = ZeroCounts
    /\ visited' = <<>>
    /\ written' = {}
    /\ repeat' = (lastInput.seen /\ lastInput.staged = staged)
    /\ pcX' = "walk"
    /\ UNCHANGED <<staged, libs, processed, lastInput>>

\* Lines 268-270: the script runs extract_smart.
BeginExtract ==
    /\ pcX = "idle" /\ pcE = "idle" /\ pcR = "idle"
    /\ extracts < MaxExtracts
    /\ StartExtract
    /\ UNCHANGED indexVars
    /\ UNCHANGED outsidePipe

InWalk == pcX = "walk" /\ idxX <= Len(all_files)

CurrentDoc == all_files[idxX]

\* Mutant: a file of a type that is not handled counts as failed.
BucketUnknownFailed(verdict) ==
    CASE verdict = "processed" -> "processed"
      [] verdict = "exists" -> "skipped"
      [] OTHER -> "failed"

\* The counter each way out of the loop body adds to (lines 164, 241, 247,
\* 250, 253, 257).
Bucket(verdict) ==
    CASE verdict = "processed" -> "processed"
      [] verdict \in {"exists", "unknown"} -> "skipped"
      [] OTHER -> "failed"

\* The loop is through with the current file.
Visit(verdict) ==
    /\ visited' = Append(visited, [doc |-> CurrentDoc, verdict |-> verdict])
    /\ counts' = [counts EXCEPT ![Bucket(verdict)] = @ + 1]
    /\ idxX' = idxX + 1
    /\ UNCHANGED <<staged, libs, pcX, all_files, lastInput, repeat, extracts>>
    /\ UNCHANGED indexVars
    /\ UNCHANGED outsidePipe

\* Mutant: the output file is not looked for.
AlreadyProcessedNever(d) == FALSE

\* Lines 161-162: the output file of the key exists.
AlreadyProcessed(d) == processed[Base(d)].exists

\* Lines 160-165.
SkipProcessed ==
    /\ InWalk
    /\ AlreadyProcessed(CurrentDoc)
    /\ Visit("exists")
    /\ UNCHANGED <<processed, written>>

\* Lines 239-242.
SkipUnknown ==
    /\ InWalk
    /\ ~AlreadyProcessed(CurrentDoc)
    /\ ~Extraction(CurrentDoc).known
    /\ Visit("unknown")
    /\ UNCHANGED <<processed, written>>

\* The file is of a handled type and line 244 finds text to write.
Writable ==
    /\ InWalk
    /\ ~AlreadyProcessed(CurrentDoc)
    /\ Extraction(CurrentDoc).known
    /\ Extraction(CurrentDoc).should_process
    /\ HasText(Extraction(CurrentDoc).text)

\* Lines 244-247 and _write_txt, lines 33-37.
WriteText ==
    /\ Writable
    /\ processed' = [processed EXCEPT ![Base(CurrentDoc)] = TextFile(Extraction(CurrentDoc).text)]
    /\ written' = written \cup {Base(CurrentDoc)}
    /\ Visit("processed")

\* Lines 36-37 and 255-257: open creates the output file and write raises;
\* the empty file stays.
WriteFails ==
    /\ Writable
    /\ processed' = [processed EXCEPT ![Base(CurrentDoc)] = TextFile(<<>>)]
    /\ written' = written \cup {Base(CurrentDoc)}
    /\ Visit("error")

\* Lines 248-250.
NoContent ==
    /\ InWalk
    /\ ~AlreadyProcessed(CurrentDoc)
    /\ Extraction(CurrentDoc).known
    /\ Extraction(CurrentDoc).should_process
    /\ ~HasText(Extraction(CurrentDoc).text)
    /\ Visit("no_text")
    /\ UNCHANGED <<processed, written>>

\* Lines 251-253.
ExtractionIssues ==
    /\ InWalk
    /\ ~AlreadyProcessed(CurrentDoc)
    /\ Extraction(CurrentDoc).known
    /\ ~Extraction(CurrentDoc).should_process
    /\ Visit("issues")
    /\ UNCHANGED <<processed, written>>

\* Lines 261-266: the loop is over and the summary is printed.
ExtractSummary ==
    /\ pcX = "walk"
    /\ idxX > Len(all_files)
    /\ pcX' = "extracted"
    /\ lastInput' = [seen |-> TRUE, staged |-> staged]
    /\ UNCHANGED <<staged, libs, processed, all_files, idxX, counts, visited,
                   written, repeat, extracts>>
    /\ UNCHANGED indexVars
    /\ UNCHANGED outsidePipe

\* extract_smart returns and its locals are gone.
DropExtractLocals ==
    /\ pcX' = "idle"
    /\ all_files' = <<>>
    /\ idxX' = 1
    /\ counts' = ZeroCounts
    /\ visited' = <<>>
    /\ written' = {}
    /\ repeat' = FALSE
    /\ UNCHANGED <<staged, libs, processed, lastInput, extracts>>

\* Line 270: the script ends.
ReturnExtract ==
    /\ pcX = "extracted"
    /\ pcR = "idle"
    /\ DropExtractLocals
    /\ UNCHANGED indexVars
    /\ UNCHANGED outsidePipe

ExtractSteps ==
    \/ SkipProcessed
    \/ SkipUnknown
    \/ WriteText
    \/ WriteFails
    \/ NoContent
    \/ ExtractionIssues
    \/ ExtractSummary

NextExtract ==
    \/ Restage
    \/ BeginExtract
    \/ ExtractSteps
    \/ ReturnExtract

SpecExtract == InitExtract /\ [][NextExtract]_vars

\* ======================================================== embed_and_store
\* Calls of embed_and_store in one behaviour.
MaxBuilds == 2

\* Calls of the reindex tool in one behaviour.
MaxReindexes == 2

\* embed.py line 31: the batch size.
B == 64

Min(a, b) == IF a < b THEN a ELSE b

\* Line 23: the chunks of one text, in the order of the text; a piece of
\* whitespace gives none.
split_text(text) == SelectSeq(text, LAMBDA u : u.by # "ws")

\* Lines 17-23: the chunks of the files, in the order the files are listed.
RECURSIVE ChunkAll(_)
ChunkAll(order) ==
    IF order = <<>> THEN <<>>
    ELSE split_text(processed[Head(order)].items) \o ChunkAll(Tail(order))

\* Line 17: os.listdir gives the files of PROCESSED_DIR in an arbitrary
\* order.
ListOrders == Perms({ k \in Keys : processed[k].exists })

Providers == {"azure", "openai", "local"}

\* embedding_utils.py lines 53-91: the providers whose embeddings a call of
\* embed_texts can return.  The block of p is entered and p is usable, and
\* no provider before it re-raises its failure.
CanServe(p) ==
    /\ Eligible(p)
    /\ usable[p]
    /\ \A j, k \in 1..Len(Chain) :
          (j < k /\ Chain[k] = p) =>
              ~(Eligible(Chain[j]) /\ usable[Chain[j]] /\ Reraises(Chain[j]))

\* The model behind each provider (config.py lines 9 and 14,
\* embedding_utils.py line 42) fixes the length of its vectors; the Azure
\* deployment is taken to serve the model EMBEDDING_MODEL_NAME names.
Dim(p) == IF p = "local" THEN "all-MiniLM-L6-v2" ELSE "text-embedding-ada-002"

\* The embedding of a text by provider p.
Embed(c, p) == [of |-> c, by |-> p]

\* embed.py line 38: np.array takes rows of one length only.
OneDim(vs) == Cardinality({ Dim(vs[i].by) : i \in 1..Len(vs) }) <= 1

\* Lines 32-33: the index i of the loop, and the batch it slices.
BatchStart == Len(batches) * B

\* Mutant: a batch that is not full is left out.
BatchFullOnly ==
    IF BatchStart + B <= Len(chunks)
    THEN SubSeq(chunks, BatchStart + 1, BatchStart + B)
    ELSE <<>>

Batch == SubSeq(chunks, BatchStart + 1, Min(BatchStart + B, Len(chunks)))

\* A text of n pieces extracted from Local Document d.
TextOf(d, n) == [k \in 1..n |-> [doc |-> d, ver |-> 1, page |-> k, by |-> "read"]]

\* PROCESSED_DIR before a build: each of the two texts is missing, short, or
\* long enough to fill a batch.
InitEmbed ==
    /\ staged = PlainStaging
    /\ libs = AllLibs
    /\ \E na \in {0, 1, B + 1}, nb \in {0, 1, B} :
          processed = [k \in Keys |->
                          IF k = Base(2) /\ na > 0 THEN TextFile(TextOf(2, na))
                          ELSE IF k = Base(3) /\ nb > 0 THEN TextFile(TextOf(3, nb))
                          ELSE Absent]
    /\ store = [index |-> Absent, chunks |-> Absent]
    /\ ExtractIdle
    /\ EmbedIdle
    /\ ToolIdle
    /\ FetchAtRest
    /\ AuthAtRest
    /\ ListAtRest
    /\ UploadAtRest
    /\ ProvAtRest

\* Lines 11-15.
StartEmbed ==
    /\ builds' = builds + 1
    /\ pcE' = "listing"
    /\ chunks' = <<>>
    /\ vecs' = <<>>
    /\ batches' = <<>>
    /\ UNCHANGED <<store, lastBuild>>

\* Lines 51-52: the script runs embed_and_store.
BeginEmbed ==
    /\ pcX = "idle" /\ pcE = "idle" /\ pcR = "idle"
    /\ builds < MaxBuilds
    /\ StartEmbed
    /\ UNCHANGED <<pcR, memIndex, memChunks, sameLoad, reindexes>>
    /\ UNCHANGED extractVars
    /\ UNCHANGED outsidePipe

\* What the steps of embed_and_store leave alone.
EmbedFrame ==
    /\ UNCHANGED <<builds, lastBuild, pcR, memIndex, memChunks, sameLoad, reindexes>>
    /\ UNCHANGED extractVars
    /\ UNCHANGED outsidePipe

\* Lines 17-27: the files are read and split; without chunks the call
\* returns.
ListAndSplit ==
    /\ pcE = "listing"
    /\ \E o \in ListOrders : chunks' = ChunkAll(o)
    /\ pcE' = IF chunks' = <<>> THEN "empty" ELSE "embedding"
    /\ UNCHANGED <<vecs, batches, store>>
    /\ EmbedFrame

\* Lines 32-35: one batch is embedded.
EmbedBatch ==
    /\ pcE = "embedding"
    /\ BatchStart < Len(chunks)
    /\ batches' = Append(batches, Batch)
    /\ \E p \in { x \in Providers : CanServe(x) } :
          vecs' = vecs \o [k \in 1..Len(Batch) |-> Embed(Batch[k], p)]
    /\ UNCHANGED <<pcE, chunks, store>>
    /\ EmbedFrame

\* Line 34: embed_texts raises.
EmbedBatchFails ==
    /\ pcE = "embedding"
    /\ BatchStart < Len(chunks)
    /\ pcE' = "raised"
    /\ UNCHANGED <<chunks, vecs, batches, store>>
    /\ EmbedFrame

\* A file of VECTOR_STORE_DIR written by the running build.
Stored(content) == [exists |-> TRUE, build |-> builds, items |-> content]

\* Lines 38-44: the index is built and written to faiss_index.bin.
WriteIndex ==
    /\ pcE = "embedding"
    /\ BatchStart >= Len(chunks)
    /\ OneDim(vecs)
    /\ store' = [store EXCEPT !.index = Stored(vecs)]
    /\ pcE' = "index_written"
    /\ UNCHANGED <<chunks, vecs, batches>>
    /\ EmbedFrame

\* Lines 38-44: the vectors are of two lengths, or building or writing the
\* index fails; the file is as it was or is cut short.
WriteIndexFails ==
    /\ pcE = "embedding"
    /\ BatchStart >= Len(chunks)
    /\ \E left \in {store.index, Stored(<<>>)} : store' = [store EXCEPT !.index = left]
    /\ pcE' = "raised"
    /\ UNCHANGED <<chunks, vecs, batches>>
    /\ EmbedFrame

\* Lines 46-49: the chunks are written to chunks.pkl.
WriteChunks ==
    /\ pcE = "index_written"
    /\ store' = [store EXCEPT !.chunks = Stored(chunks)]
    /\ pcE' = "stored"
    /\ UNCHANGED <<chunks, vecs, batches>>
    /\ EmbedFrame

\* Lines 46-47: opening or writing chunks.pkl fails, or the process is
\* stopped before it; the file is as it was or is cut short.
WriteChunksFails ==
    /\ pcE = "index_written"
    /\ \E left \in {store.chunks, Stored(<<>>)} : store' = [store EXCEPT !.chunks = left]
    /\ pcE' = "raised"
    /\ UNCHANGED <<chunks, vecs, batches>>
    /\ EmbedFrame

EmbedOver2 == pcE \in {"stored", "empty", "raised"}

\* embed_and_store is left and its locals are gone.
DropEmbedLocals ==
    /\ pcE' = "idle"
    /\ lastBuild' = [seen |-> TRUE, processed |-> processed, chunks |-> chunks]
    /\ chunks' = <<>>
    /\ vecs' = <<>>
    /\ batches' = <<>>
    /\ UNCHANGED <<store, builds>>

\* Line 52: the script ends.
ReturnEmbed ==
    /\ EmbedOver2
    /\ pcR = "idle"
    /\ DropEmbedLocals
    /\ UNCHANGED <<pcR, memIndex, memChunks, sameLoad, reindexes>>
    /\ UNCHANGED extractVars
    /\ UNCHANGED outsidePipe

\* Between two builds a Processed Text is taken out of PROCESSED_DIR by
\* hand; embed.py line 17 lists what is there when the build runs.
RemoveProcessed ==
    /\ pcX = "idle" /\ pcE = "idle" /\ pcR = "idle"
    /\ builds < MaxBuilds
    /\ \E k \in Keys :
          /\ processed[k].exists
          /\ processed' = [processed EXCEPT ![k] = Absent]
    /\ UNCHANGED <<staged, libs, pcX, all_files, idxX, counts, visited, written,
                   lastInput, repeat, extracts>>
    /\ UNCHANGED indexVars
    /\ UNCHANGED outsidePipe

EmbedSteps ==
    \/ ListAndSplit
    \/ EmbedBatch
    \/ EmbedBatchFails
    \/ WriteIndex
    \/ WriteIndexFails
    \/ WriteChunks
    \/ WriteChunksFails

NextEmbed ==
    \/ RemoveProcessed
    \/ BeginEmbed
    \/ EmbedSteps
    \/ ReturnEmbed

SpecEmbed == InitEmbed /\ [][NextEmbed]_vars

\* ================================================================ reindex
InitReindex ==
    /\ staged \in [DocIds -> [ver : {1}, shape : {"text", "image", "good", "blank"}]]
    /\ staged[1].shape \in {"text", "image"}
    /\ staged[2].shape \in {"good", "blank"}
    /\ staged[3].shape = "good"
    /\ staged[4].shape = "good"
    /\ libs = AllLibs
    /\ processed = [k \in Keys |-> Absent]
    /\ store = [index |-> Absent, chunks |-> Absent]
    /\ ExtractIdle
    /\ EmbedIdle
    /\ ToolIdle
    /\ FetchAtRest
    /\ AuthAtRest
    /\ ListAtRest
    /\ UploadAtRest
    /\ ProvAtRest

\* mcp_server.py lines 33-35: the tool is called and calls extract_smart.
Reindex ==
    /\ pcX = "idle" /\ pcE = "idle" /\ pcR = "idle"
    /\ reindexes < MaxReindexes
    /\ reindexes' = reindexes + 1
    /\ pcR' = "extract"
    /\ StartExtract
    /\ UNCHANGED <<pcE, chunks, vecs, batches, store, builds, lastBuild, memIndex, memChunks, sameLoad>>
    /\ UNCHANGED outsidePipe

\* Line 36: extract_smart has returned; embed_and_store is called.
ReindexEmbed ==
    /\ pcR = "extract"
    /\ pcX = "extracted"
    /\ DropExtractLocals
    /\ StartEmbed
    /\ pcR' = "embed"
    /\ UNCHANGED <<memIndex, memChunks, sameLoad, reindexes>>
    /\ UNCHANGED outsidePipe

\* Line 37 and retriever.py lines 64-67: embed_and_store has returned;
\* reload_index drops the index held in memory.
ReindexReload ==
    /\ pcR = "embed"
    /\ pcE \in {"stored", "empty"}
    /\ DropEmbedLocals
    /\ memIndex' = Absent
    /\ memChunks' = Absent
    /\ sameLoad' = FALSE
    /\ pcR' = "load"
    /\ UNCHANGED reindexes
    /\ UNCHANGED extractVars
    /\ UNCHANGED outsidePipe

\* Line 36: embed_and_store raised, and so does reindex.
ReindexEmbedRaised ==
    /\ pcR = "embed"
    /\ pcE = "raised"
    /\ DropEmbedLocals
    /\ pcR' = "raised"
    /\ UNCHANGED <<memIndex, memChunks, sameLoad, reindexes>>
    /\ UNCHANGED extractVars
    /\ UNCHANGED outsidePipe

\* What the steps of _ensure_loaded leave alone.
LoadFrame ==
    /\ UNCHANGED <<pcE, chunks, vecs, batches, store, builds, lastBuild, reindexes>>
    /\ UNCHANGED extractVars
    /\ UNCHANGED outsidePipe

StoreComplete == store.index.exists /\ store.chunks.exists

\* A file that was cut short cannot be read.  embed_and_store writes no
\* file without items (embed.py lines 25-27), so a file of a build that
\* holds none was cut short.
Readable(f) == ~(f.build > 0 /\ f.items = <<>>)

\* retriever.py lines 46-52: a file of the store is missing.
LoadMissing ==
    /\ pcR = "load"
    /\ ~StoreComplete
    /\ pcR' = "raised"
    /\ UNCHANGED <<memIndex, memChunks, sameLoad>>
    /\ LoadFrame

\* retriever.py line 54: the index is read.
LoadIndex ==
    /\ pcR = "load"
    /\ StoreComplete
    /\ IF Readable(store.index)
       THEN memIndex' = store.index /\ sameLoad' = FALSE /\ pcR' = "load_chunks"
       ELSE UNCHANGED <<memIndex, sameLoad>> /\ pcR' = "raised"
    /\ UNCHANGED memChunks
    /\ LoadFrame

\* retriever.py lines 55-56: the chunks are read.
LoadChunks ==
    /\ pcR = "load_chunks"
    /\ IF Readable(store.chunks)
       THEN memChunks' = store.chunks /\ sameLoad' = TRUE /\ pcR' = "done"
       ELSE UNCHANGED <<memChunks, sameLoad>> /\ pcR' = "raised"
    /\ UNCHANGED memIndex
    /\ LoadFrame

\* mcp_server.py line 38: the tool returns, or its error reaches the caller.
ReturnReindex ==
    /\ pcR \in {"done", "raised"}
    /\ pcR' = "idle"
    /\ UNCHANGED <<memIndex, memChunks, sameLoad>>
    /\ LoadFrame

NextReindex ==
    \/ Restage
    \/ Reindex
    \/ ExtractSteps
    \/ ReindexEmbed
    \/ EmbedSteps
    \/ ReindexReload
    \/ ReindexEmbedRaised
    \/ LoadMissing
    \/ LoadIndex
    \/ LoadChunks
    \/ ReturnReindex

SpecReindex == InitReindex /\ [][NextReindex]_vars

\* The tool is called over documents that may yield no text (a scanned PDF,
\* a blank text file, a damaged DOCX), with PROCESSED_DIR empty or holding
\* the text of a document staged earlier as c.txt.
InitRetool ==
    /\ staged \in [DocIds -> [ver : {1}, shape : {"text", "image", "good", "blank", "corrupt"}]]
    /\ staged[1].shape \in {"text", "image"}
    /\ staged[2].shape \in {"good", "blank"}
    /\ staged[3].shape \in {"good", "corrupt"}
    /\ staged[4].shape = "good"
    /\ libs = AllLibs
    /\ processed \in { [k \in Keys |-> IF k = Base(4) THEN f ELSE Absent] :
                          f \in {Absent, TextFile(TextOf(4, 2))} }
    /\ store = [index |-> Absent, chunks |-> Absent]
    /\ ExtractIdle
    /\ EmbedIdle
    /\ ToolIdle
    /\ FetchAtRest
    /\ AuthAtRest
    /\ ListAtRest
    /\ UploadAtRest
    /\ ProvAtRest

\* Between calls of the tool the documents change and Processed Texts are
\* taken out by hand.
NextRetool ==
    \/ RemoveProcessed
    \/ NextReindex

SpecRetool == InitRetool /\ [][NextRetool]_vars

\* ============================================================== retriever
\* retriever.py line 80: the default of k.
DefaultK == 4

\* The questions asked.
Queries == {1, 2}

\* Values of k in a direct call of retrieve_relevant_chunks.
Ks == {-1, 0, 9}

Max(a, b) == IF a > b THEN a ELSE b

\* Mutant: k is only capped from above.
ClampUpperOnly(k, n) == Min(k, n)

\* Line 92.
Clamp(k, n) == Max(1, Min(k, n))

\* Mutant: the guard never finds the index loaded.
IsLoadedNever == FALSE

\* Mutant: the guard looks at the index only.
IsLoadedIndexOnly == memIndex.exists

\* Line 43.
IsLoaded == memIndex.exists /\ memChunks.exists

\* Mutant: the chunk list is never found empty.
HasNoChunksNever == FALSE

\* Line 88.
HasNoChunks == memChunks.items = <<>>

\* The inner product of a query vector and a stored vector, as far as the
\* order of the results depends on it; two stored vectors can score alike.
Score(v, w) == (v.of * w.of.doc + w.of.page) % 3

\* The positions of the vectors of an index, counted from 0.
Ids(ix) == 0..(Len(ix.items) - 1)

\* Mutant: any vector left counts as the nearest.
BestAny(ix, v, cands) == cands

\* The vectors among cands that no other of them outscores.
Best(ix, v, cands) ==
    { i \in cands :
        \A j \in cands : Score(v, ix.items[j + 1]) <= Score(v, ix.items[i + 1]) }

\* The results of a search for k vectors among cands: the nearest first,
\* equals in any order, and -1 where no vector is left.
RECURSIVE Rankings(_, _, _, _)
Rankings(ix, v, cands, k) ==
    IF k <= 0 THEN {<<>>}
    ELSE IF cands = {} THEN {[j \in 1..k |-> -1]}
    ELSE UNION { { <<i>> \o r : r \in Rankings(ix, v, cands \ {i}, k - 1) } :
                 i \in Best(ix, v, cands) }

\* Line 93: IndexFlatIP.search.
Search(ix, v, k) == Rankings(ix, v, Ids(ix), k)

\* Line 95: the positions that the chunk list has.
Selected(ids, n) == SelectSeq(ids, LAMBDA i : 0 <= i /\ i < n)

\* Line 96: the separator between two chunks of the context.
Separator == [doc |-> 0, ver |-> 0, page |-> 0, by |-> "---"]

\* Line 96: str.join.
RECURSIVE Joined(_)
Joined(texts) ==
    IF texts = <<>> THEN <<>>
    ELSE IF Len(texts) = 1 THEN texts
    ELSE <<texts[1], Separator>> \o Joined(Tail(texts))

\* The length of the vectors an index was built for.
IndexDim(ix) == IF ix.items = <<>> THEN "none" ELSE Dim(ix.items[1].by)

\* Mutant: every error is answered alike.
StatusOfAny(err) == IF err = "none" THEN 200 ELSE 500

\* main.py lines 34-42: the status /ask answers with.
StatusOf(err) ==
    IF err = "none" THEN 200
    ELSE IF err = "not_built" THEN 503
    ELSE 500

\* A store left by another tool: an index without vectors and an empty
\* chunk list.
EmptyStore ==
    [index |-> [exists |-> TRUE, build |-> 0, items |-> <<>>],
     chunks |-> [exists |-> TRUE, build |-> 0, items |-> <<>>]]

\* The server starts over two Processed Texts, of three chunks and of two,
\* with no store or an empty one; any provider may embed.
InitQuery ==
    /\ staged = PlainStaging
    /\ libs = AllLibs
    /\ processed = [k \in Keys |->
                      IF k = Base(2) THEN TextFile(TextOf(2, 3))
                      ELSE IF k = Base(3) THEN TextFile(TextOf(3, 2))
                      ELSE Absent]
    /\ store \in {[index |-> Absent, chunks |-> Absent], EmptyStore}
    /\ ExtractIdle
    /\ EmbedIdle
    /\ ToolIdle
    /\ FetchAtRest
    /\ AuthAtRest
    /\ ListAtRest
    /\ UploadAtRest
    /\ pcT = "idle"
    /\ provider = "auto"
    /\ usable = [p \in Providers |-> TRUE]
    /\ callsT = <<>>
    /\ resultT = "none"
    /\ errorT = "none"
    /\ embeds = 0

\* What the steps of a call into the retriever leave alone.
QueryFrame ==
    /\ UNCHANGED <<pcE, chunks, vecs, batches, store, builds, lastBuild, pcR,
                   reindexes>>
    /\ UNCHANGED extractVars
    /\ UNCHANGED <<fetchVars, authVars, listVars, uploadVars, provVars, normVars>>

\* main.py lines 33-35 and llm_answer.py line 15: /ask calls
\* generate_answer, which calls retrieve_relevant_chunks with the default k.
AskQuestion ==
    /\ pcQ = "idle"
    /\ \E q \in Queries : question' = q
    /\ entryQ' = "ask"
    /\ kQ' = DefaultK
    /\ pcQ' = "ensure"
    /\ UNCHANGED <<readsQ, qv, found, contextQ, llmCalls, errorQ, statusQ>>
    /\ UNCHANGED <<memIndex, memChunks, sameLoad>>
    /\ UNCHANGED replyVars
    /\ QueryFrame

\* retriever.py line 80: retrieve_relevant_chunks is called with some k.
CallRetrieve ==
    /\ pcQ = "idle"
    /\ \E q \in Queries : question' = q
    /\ \E k \in Ks : kQ' = k
    /\ entryQ' = "retrieve"
    /\ pcQ' = "ensure"
    /\ UNCHANGED <<readsQ, qv, found, contextQ, llmCalls, errorQ, statusQ>>
    /\ UNCHANGED <<memIndex, memChunks, sameLoad>>
    /\ UNCHANGED replyVars
    /\ QueryFrame

\* Lines 59-68: reload_index drops what is held and calls _ensure_loaded.
ReloadRequest ==
    /\ pcQ = "idle"
    /\ memIndex' = Absent
    /\ memChunks' = Absent
    /\ sameLoad' = FALSE
    /\ entryQ' = "reload"
    /\ pcQ' = "ensure"
    /\ UNCHANGED <<question, kQ, readsQ, qv, found, contextQ, llmCalls, errorQ,
                   statusQ>>
    /\ UNCHANGED replyVars
    /\ QueryFrame

\* Lines 40-44: _ensure_loaded returns at once when both are held.
EnsureLoaded ==
    /\ pcQ = "ensure"
    /\ pcQ' = IF IsLoaded THEN "ready" ELSE "load"
    /\ UNCHANGED <<entryQ, question, kQ, readsQ, qv, found, contextQ, llmCalls,
                   errorQ, statusQ>>
    /\ UNCHANGED <<memIndex, memChunks, sameLoad>>
    /\ UNCHANGED replyVars
    /\ QueryFrame

\* Lines 46-52: a file of the store is missing; FileNotFoundError.
QueryLoadMissing ==
    /\ pcQ = "load"
    /\ ~StoreComplete
    /\ errorQ' = "not_built"
    /\ pcQ' = "raised"
    /\ UNCHANGED <<entryQ, question, kQ, readsQ, qv, found, contextQ, llmCalls,
                   statusQ>>
    /\ UNCHANGED <<memIndex, memChunks, sameLoad>>
    /\ UNCHANGED replyVars
    /\ QueryFrame

\* Line 54: the index is read.
QueryLoadIndex ==
    /\ pcQ = "load"
    /\ StoreComplete
    /\ IF Readable(store.index)
       THEN /\ memIndex' = store.index
            /\ sameLoad' = FALSE
            /\ readsQ' = Append(readsQ, "index")
            /\ pcQ' = "load_chunks"
            /\ UNCHANGED errorQ
       ELSE /\ errorQ' = "read"
            /\ pcQ' = "raised"
            /\ UNCHANGED <<memIndex, sameLoad, readsQ>>
    /\ UNCHANGED <<entryQ, question, kQ, qv, found, contextQ, llmCalls, statusQ>>
    /\ UNCHANGED memChunks
    /\ UNCHANGED replyVars
    /\ QueryFrame

\* Lines 55-56: the chunks are read.
QueryLoadChunks ==
    /\ pcQ = "load_chunks"
    /\ IF Readable(store.chunks)
       THEN /\ memChunks' = store.chunks
            /\ sameLoad' = ("index" \in { readsQ[n] : n \in 1..Len(readsQ) })
            /\ readsQ' = Append(readsQ, "chunks")
            /\ pcQ' = "ready"
            /\ UNCHANGED errorQ
       ELSE /\ errorQ' = "read"
            /\ pcQ' = "raised"
            /\ UNCHANGED <<memChunks, sameLoad, readsQ>>
    /\ UNCHANGED <<entryQ, question, kQ, qv, found, contextQ, llmCalls, statusQ>>
    /\ UNCHANGED memIndex
    /\ UNCHANGED replyVars
    /\ QueryFrame

\* Lines 88-89: without chunks the context is the empty string.
NoChunks ==
    /\ pcQ = "ready"
    /\ entryQ # "reload"
    /\ HasNoChunks
    /\ contextQ' = <<>>
    /\ pcQ' = "retrieved"
    /\ UNCHANGED <<entryQ, question, kQ, readsQ, qv, found, llmCalls, errorQ,
                   statusQ>>
    /\ UNCHANGED <<memIndex, memChunks, sameLoad>>
    /\ UNCHANGED replyVars
    /\ QueryFrame

\* Lines 71-76 and 91: the question is embedded by embed_single.
EmbedQuery ==
    /\ pcQ = "ready"
    /\ entryQ # "reload"
    /\ ~HasNoChunks
    /\ \E p \in { x \in Providers : CanServe(x) } : qv' = Embed(question, p)
    /\ pcQ' = "embedded"
    /\ UNCHANGED <<entryQ, question, kQ, readsQ, found, contextQ, llmCalls,
                   errorQ, statusQ>>
    /\ UNCHANGED <<memIndex, memChunks, sameLoad>>
    /\ UNCHANGED replyVars
    /\ QueryFrame

\* Line 74: embed_texts raises.
EmbedQueryFails ==
    /\ pcQ = "ready"
    /\ entryQ # "reload"
    /\ ~HasNoChunks
    /\ errorQ' = "embed"
    /\ pcQ' = "raised"
    /\ UNCHANGED <<entryQ, question, kQ, readsQ, qv, found, contextQ, llmCalls,
                   statusQ>>
    /\ UNCHANGED <<memIndex, memChunks, sameLoad>>
    /\ UNCHANGED replyVars
    /\ QueryFrame

\* Lines 92-96: k is clamped, the index is searched, and the chunks at the
\* positions found are joined.
SearchIndex ==
    /\ pcQ = "embedded"
    /\ Dim(qv.by) = IndexDim(memIndex)
    /\ \E r \in Search(memIndex, qv, Clamp(kQ, Len(memChunks.items))) :
          /\ found' = [done |-> TRUE, k |-> Clamp(kQ, Len(memChunks.items)),
                       ids |-> r]
          /\ contextQ' =
                Joined([j \in 1..Len(Selected(r, Len(memChunks.items))) |->
                           memChunks.items[Selected(r, Len(memChunks.items))[j] + 1]])
    /\ pcQ' = "retrieved"
    /\ UNCHANGED <<entryQ, question, kQ, readsQ, qv, llmCalls, errorQ, statusQ>>
    /\ UNCHANGED <<memIndex, memChunks, sameLoad>>
    /\ UNCHANGED replyVars
    /\ QueryFrame

\* Line 93: the index was built for vectors of another length than the
\* query vector's; the search raises.
SearchMismatch ==
    /\ pcQ = "embedded"
    /\ Dim(qv.by) # IndexDim(memIndex)
    /\ errorQ' = "search"
    /\ pcQ' = "raised"
    /\ UNCHANGED <<entryQ, question, kQ, readsQ, qv, found, contextQ, llmCalls,
                   statusQ>>
    /\ UNCHANGED <<memIndex, memChunks, sameLoad>>
    /\ UNCHANGED replyVars
    /\ QueryFrame

\* The texts the language model may answer with.
Replies == {<<"o", "k">>, <<" ", "o", "k", " ">>}

\* A text without the whitespace around it.
AnswerStripped(t) == Strip(t)

\* llm_answer.py line 26: generate_answer returns the content of the first
\* choice as it is.
AnswerOf(t) == t

\* llm_answer.py lines 16-26: the context and the question are sent to the
\* language model, which answers or fails; its text is returned.
CallModel ==
    /\ pcQ = "retrieved"
    /\ entryQ = "ask"
    /\ llmCalls' = Append(llmCalls, [context |-> contextQ, question |-> question])
    /\ \/ \E t \in Replies :
             /\ reply' = t
             /\ answerQ' = AnswerOf(t)
             /\ pcQ' = "answered"
             /\ UNCHANGED errorQ
       \/ /\ pcQ' = "raised"
          /\ errorQ' = "llm"
          /\ UNCHANGED replyVars
    /\ UNCHANGED <<entryQ, question, kQ, readsQ, qv, found, contextQ, statusQ>>
    /\ UNCHANGED <<memIndex, memChunks, sameLoad>>
    /\ QueryFrame

\* main.py lines 34-42: /ask answers.
Respond ==
    /\ entryQ = "ask"
    /\ pcQ \in {"answered", "raised"}
    /\ statusQ' = StatusOf(errorQ)
    /\ pcQ' = "responded"
    /\ UNCHANGED <<entryQ, question, kQ, readsQ, qv, found, contextQ, llmCalls,
                   errorQ>>
    /\ UNCHANGED <<memIndex, memChunks, sameLoad>>
    /\ UNCHANGED replyVars
    /\ QueryFrame

\* The call is over.
QueryOver ==
    \/ entryQ = "ask" /\ pcQ = "responded"
    \/ entryQ = "retrieve" /\ pcQ \in {"retrieved", "raised"}
    \/ entryQ = "reload" /\ pcQ \in {"ready", "raised"}

\* The call is left and its locals are gone.
ReturnQuery ==
    /\ QueryOver
    /\ pcQ' = "idle"
    /\ entryQ' = "none"
    /\ question' = 0
    /\ kQ' = 0
    /\ readsQ' = <<>>
    /\ qv' = NoVector
    /\ found' = NoSearch
    /\ contextQ' = <<>>
    /\ llmCalls' = <<>>
    /\ errorQ' = "none"
    /\ statusQ' = 0
    /\ reply' = <<>>
    /\ answerQ' = <<>>
    /\ UNCHANGED <<memIndex, memChunks, sameLoad>>
    /\ QueryFrame

QuerySteps ==
    \/ EnsureLoaded
    \/ QueryLoadMissing
    \/ QueryLoadIndex
    \/ QueryLoadChunks
    \/ NoChunks
    \/ EmbedQuery
    \/ EmbedQueryFails
    \/ SearchIndex
    \/ SearchMismatch
    \/ CallModel
    \/ Respond
    \/ ReturnQuery

\* The server answers while builds run in another process.
NextQuery ==
    \/ RemoveProcessed
    \/ BeginEmbed
    \/ EmbedSteps
    \/ ReturnEmbed
    \/ AskQuestion
    \/ CallRetrieve
    \/ ReloadRequest
    \/ QuerySteps

SpecQuery == InitQuery /\ [][NextQuery]_vars

\* ========================================================= bounded loops
\* One of fetch_onedrive_folder, _make_authenticated_request,
\* list_folder_items, embed_texts and embed_and_store runs from its initial
\* states while the others stay at rest, and every call that was made
\* returns or fails in the end.
InitBounded ==
    \/ InitFetch
    \/ InitAuth
    \/ InitList
    \/ InitProv
    \/ InitEmbed

\* The steps of fetch_onedrive_folder and _download_with_retry once a run
\* has begun.
FetchSteps ==
    \/ SkipFolder \/ SkipProtected \/ SkipUpToDate \/ BeginDownload
    \/ AttemptRaises \/ AttemptWriteFails \/ AttemptSucceeds \/ AttemptCorrupt
    \/ Account \/ Summary \/ Return

BoundedFetch ==
    /\ AuthAtRest /\ ListAtRest /\ ProvAtRest /\ PipeAtRest
    /\ (StartRun \/ ListingFails \/ FetchSteps)

BoundedAuth ==
    /\ FetchAtRest /\ ListAtRest /\ ProvAtRest /\ PipeAtRest
    /\ NextAuth

BoundedList ==
    /\ FetchAtRest /\ AuthAtRest /\ ProvAtRest /\ PipeAtRest
    /\ NextList

BoundedProv ==
    /\ FetchAtRest /\ AuthAtRest /\ ListAtRest /\ PipeAtRest
    /\ NextProv

BoundedEmbed ==
    /\ FetchAtRest /\ AuthAtRest /\ ListAtRest /\ ProvAtRest
    /\ NextEmbed

NextBounded ==
    \/ BoundedFetch
    \/ BoundedAuth
    \/ BoundedList
    \/ BoundedProv
    \/ BoundedEmbed

\* The steps of a call under way, as against the steps that begin a call
\* or change what it will find.
RunSteps ==
    \/ FetchSteps
    \/ UseCachedHeaders \/ AcquireSilent \/ AcquireByFlow \/ AcquireFails
    \/ RejectMethod \/ SendRequest \/ SendRaises \/ Invalidate \/ ReturnResponse
    \/ DriveFails \/ DriveAnswers \/ FetchPage \/ PageFails \/ ReturnSingle
    \/ Partition \/ Descend \/ ReturnUp
    \/ TryAzure \/ TryOpenAI \/ TryLocal \/ NoProvider
    \/ EmbedSteps \/ ReturnEmbed

\* Every network call and every local step returns or fails: a step of the
\* call under way is taken in the end.  Such a step is possible only for the
\* one component that has left its rest.
SpecBounded ==
    InitBounded /\ [][NextBounded]_vars /\ WF_vars(RunSteps)

\* ---------------------------------------------------------------- _normalize
\* Vector components are fixed-point numbers: Scale units make 1.0.
Scale == 1000

\* The components an embedding may have, from -2.0 to 3.0.
Comps == {-2000, 0, 500, 3000}

\* X.shape[1], the length of every vector of a matrix.
VecDim == 2

\* The most rows of a matrix.
MaxRows == 2

Vectors == [1..VecDim -> Comps]

Matrices == UNION { [1..n -> Vectors] : n \in 1..MaxRows }

RECURSIVE SumSqUpTo(_, _)
SumSqUpTo(v, n) == IF n = 0 THEN 0 ELSE SumSqUpTo(v, n - 1) + v[n] * v[n]

SumSq(v) == SumSqUpTo(v, Len(v))

\* The sum of the magnitudes of the first n components, which no norm exceeds.
RECURSIVE SumAbs(_, _)
SumAbs(v, n) ==
    IF n = 0 THEN 0
    ELSE SumAbs(v, n - 1) + (IF v[n] < 0 THEN 0 - v[n] ELSE v[n])

\* The largest r in lo..hi whose square is at most x.
RECURSIVE RootIn(_, _, _)
RootIn(x, lo, hi) ==
    IF lo = hi THEN lo
    ELSE LET mid == (lo + hi + 1) \div 2
         IN  IF mid * mid <= x THEN RootIn(x, mid, hi) ELSE RootIn(x, lo, mid - 1)

\* np.linalg.norm of one row (lines 7 of embed.py and 27 of retriever.py):
\* the square root of the sum of the squares, to the precision of the
\* arithmetic.
Norm(v) == RootIn(SumSq(v), 0, SumAbs(v, Len(v)))

\* n[n == 0] = 1.0 (lines 8 of embed.py and 28 of retriever.py).
Guarded(n) == IF n = 0 THEN Scale ELSE n

\* a / b for b > 0, rounded to the nearest unit.
Quotient(a, b) ==
    IF a >= 0 THEN (2 * a + b) \div (2 * b) ELSE 0 - ((2 * (0 - a) + b) \div (2 * b))

\* A matrix returned as it came.
NormalizeNot(m) == m

\* _normalize (embed.py lines 6-9, retriever.py lines 25-29): every row
\* divided by its own norm (axis=1, keepdims=True), the norm of a zero row
\* taken as 1.
_normalize(m) ==
    [i \in 1..Len(m) |->
        [j \in 1..Len(m[i]) |-> Quotient(m[i][j] * Scale, Guarded(Norm(m[i])))]]

\* What a call of _normalize leaves alone.
NormFrame == UNCHANGED <<fetchVars, authVars, listVars, uploadVars, provVars,
                         pipeVars, queryVars, replyVars>>

\* embed.py lines 38-39: X = _normalize(np.array(vecs)), over all the
\* vectors of a build.
NormalizeStored ==
    /\ pcN = "idle"
    /\ pcN' = "store"
    /\ unit' = _normalize(mat)
    /\ UNCHANGED mat
    /\ NormFrame

\* retriever.py lines 75-76: _normalize(np.array([embedding])), a matrix of
\* the one query vector.
NormalizeQuery ==
    /\ pcN = "idle"
    /\ Len(mat) = 1
    /\ pcN' = "query"
    /\ unit' = _normalize(mat)
    /\ UNCHANGED mat
    /\ NormFrame

\* The embeddings of a build or of a question, before they are normalised.
InitNorm ==
    /\ pcN = "idle"
    /\ mat \in Matrices
    /\ unit = <<>>
    /\ FetchAtRest
    /\ AuthAtRest
    /\ ListAtRest
    /\ UploadAtRest
    /\ ProvAtRest
    /\ staged = PlainStaging
    /\ libs = AllLibs
    /\ processed = [k \in Keys |-> Absent]
    /\ store = [index |-> Absent, chunks |-> Absent]
    /\ ExtractIdle
    /\ EmbedIdle
    /\ pcR = "idle"
    /\ memIndex = Absent
    /\ memChunks = Absent
    /\ sameLoad = FALSE
    /\ reindexes = 0
    /\ QueryIdle

NextNorm ==
    \/ NormalizeStored
    \/ NormalizeQuery

SpecNorm == InitNorm /\ [][NextNorm]_vars

\* ================================================================ claims
\* Attempts of the running call whose written file passed the check.
Passed == { k \in 1..Len(tried) : tried[k] = "ok" }

\* C1: _download_with_retry calls download_file at most 3 times, stops at
\* the first attempt whose written file passes the integrity check, and
\* returns True exactly when some attempt downloaded and passed; the file
\* then left at the destination is what that attempt wrote, and it passes
\* the check.
C1_RetryContract ==
    /\ Len(tried) <= 3
    /\ \A k \in Passed : k = Len(tried) /\ pc = "returned"
    /\ pc = "returned" =>
          /\ Len(tried) >= 1
          /\ ret <=> Passed # {}
          /\ ret => /\ disk[dest] # NoFile
                    /\ disk[dest].src = Current.id
                    /\ disk[dest].mtime = now
                    /\ _test_file_integrity(dest, disk)

\* Two attempts failed and the third succeeded.
C1_Witness ==
    /\ pc = "returned"
    /\ ret
    /\ tried = <<"raised", "corrupt", "ok">>

\* C2: when all 3 attempts fail, by error or by detected corruption, the
\* call reports failure and no file, partial or corrupted, is left at the
\* destination path.
C2_NoFileAfterExhaustion ==
    (pc = "returned" /\ ~ret) => (Len(tried) = 3 /\ disk[dest] = NoFile)

C4_CountedIsWellFormed ==
    (pc = "returned" /\ ret) => disk[dest].kind = "good"

IsChecked(path) == EndsWith(path, Pdf) \/ EndsWith(path, Docx) \/ EndsWith(path, Pptx)

\* C4 amended: a file counted as downloaded or skipped has passed
\* _test_file_integrity, which for a PDF or Office file means it is
\* well-formed and for any other file only that it can be read; a written
\* file that fails the check is removed before the next attempt or the
\* return.
C4_CountedPassedCheck ==
    /\ [](pc = "returned" /\ ret =>
            /\ _test_file_integrity(dest, disk)
            /\ IsChecked(dest) => disk[dest].kind = "good")
    /\ []((pc \in {"download", "returned"} /\ tried # <<>>
           /\ tried[Len(tried)] = "corrupt") => disk[dest] = NoFile)
    /\ [][(IsCandidate /\ stats'.skipped = stats.skipped + 1) =>
            LET p == DestPath(Current, recursive)
            IN /\ _test_file_integrity(p, disk)
               /\ IsChecked(p) => disk[p].kind = "good"
         ]_vars

\* A PDF was rejected once and then downloaded intact.
C4_Witness ==
    /\ pc = "returned"
    /\ ret
    /\ IsChecked(dest)
    /\ \E k \in 1..Len(tried) : tried[k] = "corrupt"

Candidates == { i \in 1..Len(items) : ~items[i].folder /\ ~IsProtected(items[i]) }

\* C5: two distinct file items of one listing are staged at distinct local
\* paths, and the file an item finds at its path was written for that item.
C5_OnePerItem ==
    /\ \A i, j \in Candidates :
          (i # j /\ (items[i].name # items[j].name \/ items[i].rel # items[j].rel))
             => DestPath(items[i], recursive) # DestPath(items[j], recursive)
    /\ pc = "download" => (prior = NoFile \/ prior.src = Current.id)

\* The call is over, by a return or by an exception.
CallOver == pcA \in {"returned", "raised"}

Got401 == statuses # <<>> /\ statuses[1] = 401

Refreshes == { k \in 1..Len(acquired) : acquired[k].at = "refresh" }

RECURSIVE Concat(_)
\* The concatenation of a sequence of sequences.
Concat(ss) == IF ss = <<>> THEN <<>> ELSE Head(ss) \o Concat(Tail(ss))

\* C7: _list_folder_single follows the continuation link of each response
\* until a response carries none, and what it returns is the items of all
\* pages of the folder in page order: while link k is pending it holds the
\* items of pages 1..k-1, and once no link is left it holds those of every
\* page the server offers.
C7_AllPagesInOrder ==
    /\ \A d \in 1..Len(stack) :
          LET fr == stack[d]
          IN IF fr.page # 0
             THEN fr.got = Concat(SubSeq(Pages[fr.folder], 1, fr.page - 1))
             ELSE fr.got = Concat(Pages[fr.folder])
    /\ (pcL = "returned" /\ ~recursiveL) => listResult = Concat(Pages[folderL])

\* The non-recursive listing of a folder of two pages has returned.
C7_Witness ==
    /\ pcL = "returned"
    /\ ~recursiveL
    /\ Len(Pages[folderL]) = 2
    /\ Len(listResult) = 4

RECURSIVE Expected(_, _)
RECURSIVE ExpectedOfEach(_)
\* What the traversal of folder f at _current_path path is to yield given
\* the folders whose listing failed: the files of f in listing order, then
\* the yield of each subfolder in listing order, a failed one yielding
\* nothing.
Expected(f, path) ==
    LET its == WithRel(path, Concat(Pages[f]))
    IN SelectSeq2(its, FALSE) \o ExpectedOfEach(SelectSeq2(its, TRUE))

ExpectedOfEach(subs) ==
    IF subs = <<>> THEN <<>>
    ELSE (IF Head(subs).name \in failedL THEN <<>>
          ELSE Expected(Head(subs).name, Head(subs).rel))
         \o ExpectedOfEach(Tail(subs))

\* C8: a failure while listing a subfolder, at any depth, does not abort
\* the recursive listing: the call raises only if the drive request or the
\* listing of the folder asked for fails, and otherwise returns, depth
\* first with each folder's files before the items of its subfolders, the
\* files of every folder whose listing did not fail.
C8_SubfolderFailureIsolated ==
    /\ (pcL = "raised" /\ recursiveL) => failedL \subseteq {folderL}
    /\ (pcL = "returned" /\ recursiveL) =>
          /\ folderL \notin failedL
          /\ listResult = Expected(folderL, <<>>)

\* The listing of AA, two levels down, failed; the files of its parent A,
\* of the root, and of the sibling B were returned.
C8_Witness ==
    /\ pcL = "returned"
    /\ recursiveL
    /\ folderL = Root
    /\ failedL = {"AA"}
    /\ Len(listResult) = 5

UploadOver == pcU \in {"succeeded", "failed"}

C10_FolderEnsuredBeforeContent ==
    \A k \in 1..Len(reqs) :
        reqs[k].kind = "content" =>
            \A n \in 1..Len(folderU) :
                \E j \in 1..(k - 1) :
                    /\ reqs[j].kind \in {"check", "create"}
                    /\ reqs[j].ok
                    /\ Len(reqs[j].path) >= n

EmbedOver == pcT \in {"returned", "raised"}

\* The usable providers, in the order of the chain.
UsableChain == SelectSeq(Chain, LAMBDA p : usable[p])

Called == [k \in 1..Len(callsT) |-> callsT[k].to]

\* C18: under the setting "auto", embed_texts calls the usable providers in
\* the order Azure, OpenAI, local model, moving on only after a failure; it
\* returns the embeddings of the first provider that succeeds and calls no
\* later one; it raises only when every usable provider has been called and
\* has failed.
C18_AutoFallsThroughInOrder ==
    provider = "auto" =>
        /\ Len(callsT) <= Len(UsableChain)
        /\ Called = SubSeq(UsableChain, 1, Len(callsT))
        /\ \A k \in 1..Len(callsT) :
              callsT[k].ok => (k = Len(callsT) /\ pcT = "returned" /\ resultT = callsT[k].to)
        /\ pcT = "returned" => (callsT # <<>> /\ callsT[Len(callsT)].ok)
        /\ pcT = "raised" =>
              /\ errorT = "no_provider"
              /\ Called = UsableChain
              /\ \A k \in 1..Len(callsT) : ~callsT[k].ok
        /\ pcT = "none_left" => Called = UsableChain

\* Azure failed, OpenAI is not configured, the local model answered.
C18_Witness ==
    /\ provider = "auto"
    /\ pcT = "returned"
    /\ ~usable["openai"]
    /\ callsT = <<[to |-> "azure", ok |-> FALSE], [to |-> "local", ok |-> TRUE]>>

Pinned == provider \in {"azure", "openai", "sentence-transformers"}

PinnedTo == CHOOSE p \in {"azure", "openai", "local"} : Setting(p) = provider

\* Position of provider p in the chain.
Rank(p) == CHOOSE k \in 1..3 : Chain[k] = p

\* C19 as stated: pinned to one provider, no call goes to another provider.
C19_OnlyPinnedCalled ==
    Pinned => \A k \in 1..Len(callsT) : callsT[k].to = PinnedTo

\* C19: pinned to a provider that is usable, embed_texts calls that provider
\* only, and its failure is raised from embed_texts; pinned to a provider
\* that is not usable, embed_texts never calls it nor any provider before
\* it in the chain, and falls through to the usable providers after it.
C19_PinnedFailureIsFatal ==
    Pinned =>
        /\ usable[PinnedTo] =>
              /\ \A k \in 1..Len(callsT) : callsT[k].to = PinnedTo
              /\ Len(callsT) <= 1
              /\ (callsT # <<>> /\ ~callsT[1].ok) => (pcT = "raised" /\ errorT = PinnedTo)
              /\ pcT = "raised" => (callsT # <<>> /\ ~callsT[1].ok)
        /\ ~usable[PinnedTo] =>
              /\ \A k \in 1..Len(callsT) : Rank(callsT[k].to) > Rank(PinnedTo)
              /\ pcT = "raised" => errorT = "no_provider"

\* Pinned to Azure, Azure failed, and the failure was raised.
C19_Witness ==
    /\ provider = "azure"
    /\ usable["azure"] /\ usable["openai"]
    /\ pcT = "raised"
    /\ callsT = <<[to |-> "azure", ok |-> FALSE]>>

IsPdf(d) == HasExt(d, {<<"p", "d", "f">>})

\* The primary extractor, run over the whole document, yields text.
PrimaryYields(d) == staged[d].shape # "broken" /\ HasText(PagesBy(d, "fitz"))

\* The secondary extractor, run over the whole document, yields text.
SecondaryYields(d) ==
    staged[d].shape # "broken" /\ libs.pdfplumber /\ HasText(PagesBy(d, "plumber"))

\* C11: a PDF that extraction handles is given a Processed Text when the
\* primary or the secondary extractor yields non-whitespace text from the
\* document, and is classified as non-extractable only when neither does.
C11_PdfExtractedWhenEitherYields ==
    \A k \in 1..Len(visited) :
        LET d == visited[k].doc
        IN (IsPdf(d) /\ visited[k].verdict # "exists") =>
              ((PrimaryYields(d) \/ SecondaryYields(d))
                  <=> visited[k].verdict \in {"processed", "error"})

\* C12: once extract_smart has completed, the Processed Text under the key
\* of a Local Document exists exactly when the extraction of that document
\* yields non-empty text, it holds the text of that document and no other,
\* and it is not empty.
C12_OneTextPerDocument ==
    pcX = "extracted" =>
        \A d \in DocIds :
            LET f == processed[Base(d)]
                o == Extraction(d)
            IN /\ f.exists <=> (o.known /\ o.should_process /\ HasText(o.text))
               /\ f.exists =>
                     /\ HasText(f.items)
                     /\ \A k \in 1..Len(f.items) : f.items[k].doc = d

\* C13: a call of extract_smart that finds the staging area as the call
\* before it left it writes no Processed Text, and no step ever changes a
\* Processed Text that exists.
C13_ExtractionIdempotent ==
    /\ [](repeat => written = {})
    /\ [][\A k \in Keys : processed[k].exists => processed'[k] = processed[k]]_vars

\* A second call over the same staging area is over; it has skipped the
\* texts of the first and failed again on what the first failed on.
C13_Witness ==
    /\ repeat
    /\ pcX = "extracted"
    /\ counts.skipped >= 2
    /\ counts.failed >= 1
    /\ \E k \in Keys : processed[k].exists /\ HasText(processed[k].items)

Verdicts(vs) == { k \in 1..Len(visited) : visited[k].verdict \in vs }

\* C14: the loop goes through the files found in walk order whatever
\* becomes of each; at the summary every file found has been counted in
\* exactly one of processed, skipped, failed, and a file of a type that is
\* not handled has been counted as skipped.
C14_EveryFileCountedOnce ==
    /\ pcX \in {"walk", "extracted"} =>
          /\ Len(visited) = idxX - 1
          /\ \A k \in 1..Len(visited) : visited[k].doc = all_files[k]
    /\ pcX = "extracted" =>
          /\ Len(visited) = Len(all_files)
          /\ counts.processed + counts.skipped + counts.failed = Len(all_files)
          /\ counts.processed = Cardinality(Verdicts({"processed"}))
          /\ counts.skipped = Cardinality(Verdicts({"exists", "unknown"}))
          /\ counts.failed = Cardinality(Verdicts({"error", "no_text", "issues"}))
          /\ \A k \in 1..Len(visited) :
                ~Extraction(visited[k].doc).known => visited[k].verdict \in {"exists", "unknown"}

\* A write failed on one file, a later file was extracted, and a file of an
\* unhandled type was skipped.
C14_Witness ==
    /\ pcX = "extracted"
    /\ \E j, k \in 1..Len(visited) :
          j < k /\ visited[j].verdict = "error" /\ visited[k].verdict = "processed"
    /\ Verdicts({"unknown"}) # {}

\* C15: when a reindex has completed, every chunk of the persisted index
\* comes from the current content of its Local Document.
C15_ReindexDropsSupersededContent ==
    pcR = "done" =>
        \A k \in 1..Len(store.chunks.items) :
            store.chunks.items[k].ver = staged[store.chunks.items[k].doc].ver

\* C16: a call of embed_and_store that finds the Processed Texts the call
\* before it found produces the chunk sequence that call produced.
C16_SameChunksEveryRun ==
    (/\ lastBuild.seen
     /\ lastBuild.processed = processed
     /\ pcE \in {"embedding", "index_written", "stored", "empty", "raised"})
        => chunks = lastBuild.chunks

Ceil(n, b) == (n + b - 1) \div b

\* C17: the j-th call of the embedding provider gets chunks (j-1)*64+1 to
\* j*64 (the last call those that are left), n chunks take ceil(n/64) calls
\* and none is made without chunks, and the vector at position i is the
\* embedding of chunk i, with as many vectors as chunks at the end.
C17_OneCallPerBatch ==
    /\ pcE \in {"embedding", "index_written", "stored"} =>
          /\ \A j \in 1..Len(batches) :
                /\ batches[j] # <<>>
                /\ batches[j] = SubSeq(chunks, (j - 1) * B + 1, Min(j * B, Len(chunks)))
          /\ Len(vecs) = Min(Len(batches) * B, Len(chunks))
          /\ \A i \in 1..Len(vecs) : vecs[i].of = chunks[i]
    /\ pcE \in {"index_written", "stored"} =>
          /\ Len(batches) = Ceil(Len(chunks), B)
          /\ Len(vecs) = Len(chunks)
          /\ store.index.items = vecs
    /\ pcE = "empty" => (chunks = <<>> /\ batches = <<>>)

\* 129 chunks were embedded in three calls and stored.
C17_Witness ==
    /\ pcE = "stored"
    /\ Len(chunks) = 2 * B + 1
    /\ Len(batches) = 3
    /\ Len(batches[3]) = 1

\* C20: whenever no build is under way, the two files of the store are both
\* missing or both there, written by the same build and of the same length.
C20_StoreIsAPair ==
    pcE \in {"idle", "stored", "empty", "raised"} =>
        /\ store.index.exists = store.chunks.exists
        /\ store.index.exists =>
              /\ store.index.build = store.chunks.build
              /\ Len(store.index.items) = Len(store.chunks.items)

\* C21: when embed_and_store has returned, the store holds the chunks of the
\* Processed Texts the call found and their vectors in the same order, and
\* holds nothing when the call found no chunk.
C21_RebuildReplacesStore ==
    pcE \in {"stored", "empty"} =>
        /\ store.chunks.items = chunks
        /\ Len(store.index.items) = Len(chunks)
        /\ \A i \in 1..Len(chunks) : store.index.items[i].of = chunks[i]

\* C22: every search runs over an index and a chunk list that the same
\* build persisted.
C22_NoMixedSnapshot ==
    found.done => memIndex.build = memChunks.build

\* The retriever holds an index and a chunk list.
BothHeld == memIndex.exists /\ memChunks.exists

\* C23: the retriever comes to hold both artifacts only by a load that read
\* both from disk, gives them up only on a reload request, reads no file
\* while it holds them, re-reads both whenever _ensure_loaded finds it not
\* holding both, and holds not both after a failed load; a reload that
\* returns has read both again.
C23_TwoStates ==
    /\ [][(~BothHeld /\ BothHeld') =>
             (pcQ = "load_chunks" /\ readsQ' = <<"index", "chunks">>)]_vars
    /\ [][(BothHeld /\ ~BothHeld') => (pcQ = "idle" /\ entryQ' = "reload")]_vars
    /\ [][(BothHeld /\ BothHeld') => Len(readsQ') <= Len(readsQ)]_vars
    /\ [][pcQ = "ensure" => pcQ' \in {"ensure", IF BothHeld THEN "ready" ELSE "load"}]_vars
    /\ [](pcQ = "raised" /\ errorQ \in {"not_built", "read"} => ~BothHeld)
    /\ [](entryQ = "reload" /\ pcQ = "ready" =>
             BothHeld /\ readsQ = <<"index", "chunks">>)

\* A search has run over the artifacts held from an earlier call, with no
\* file read, although the store has since been rebuilt.
C23_Witness ==
    /\ found.done
    /\ pcQ = "retrieved"
    /\ readsQ = <<>>
    /\ BothHeld
    /\ store.index.build > memIndex.build

\* C24: a load that finds a file of the store missing raises the
\* index-not-built error and no other step does; /ask answers 503 to that
\* error, 500 to every other error, and 200 only when no step failed and the
\* language model answered.
C24_StatusByError ==
    /\ [][(pcQ = "load" /\ pcQ' # "load") =>
             ((errorQ' = "not_built") <=> ~StoreComplete)]_vars
    /\ [][pcQ # "load" => (errorQ' = "not_built" => errorQ = "not_built")]_vars
    /\ [](pcQ = "responded" =>
             /\ statusQ \in {200, 500, 503}
             /\ (statusQ = 503) <=> (errorQ = "not_built")
             /\ (statusQ = 500) <=> (errorQ \in {"read", "embed", "search", "llm"})
             /\ (statusQ = 200) <=> (errorQ = "none")
             /\ (statusQ = 200) => (llmCalls # <<>>))

\* /ask has answered 503 before any build has written the store.
C24_Witness ==
    /\ pcQ = "responded"
    /\ statusQ = 503
    /\ ~store.chunks.exists
    /\ ~BothHeld

\* What C25 says of k and of the positions found: the search is asked for
\* k clamped to 1..chunk_count, the positions kept are within the chunk
\* list and distinct, and the context holds their chunks and no more.
ClampedAndInRange ==
    found.done =>
        LET n == Len(memChunks.items)
            sel == Selected(found.ids, n)
        IN /\ 1 <= found.k /\ found.k <= n
           /\ (1 <= kQ /\ kQ <= n) => found.k = kQ
           /\ kQ < 1 => found.k = 1
           /\ kQ > n => found.k = n
           /\ Len(found.ids) = found.k
           /\ \A j \in 1..Len(sel) : 0 <= sel[j] /\ sel[j] < n
           /\ Cardinality({ sel[j] : j \in 1..Len(sel) }) = Len(sel)
           /\ Len(sel) <= n
           /\ Len(contextQ) = IF sel = <<>> THEN 0 ELSE 2 * Len(sel) - 1

\* C25 as stated: with both artifacts held and the chunk list not empty,
\* k is clamped, the positions are in range, and retrieve_relevant_chunks
\* raises nothing.
C25_ClampedNeverRaises ==
    /\ ClampedAndInRange
    /\ (BothHeld /\ memChunks.items # <<>>) => errorQ \notin {"embed", "search"}

\* C25, corrected: k is clamped and the positions are in range whatever k
\* and whatever the lengths of index and chunk list; with both artifacts
\* held and the chunk list not empty, retrieve_relevant_chunks raises only
\* when embedding the question fails, before k is used, or when the query
\* vector is of another length than the index was built for.
C25_ClampedRaisesOnlyOnEmbedding ==
    /\ ClampedAndInRange
    /\ (pcQ = "raised" /\ errorQ \notin {"not_built", "read", "llm"}) =>
          /\ BothHeld /\ memChunks.items # <<>>
          /\ ~found.done
          /\ \/ errorQ = "embed" /\ qv = NoVector
             \/ errorQ = "search" /\ Dim(qv.by) # IndexDim(memIndex)

\* A search with k = 9 over an index longer than the chunk list has found a
\* position the chunk list does not have, and has left it out.
C25_Witness ==
    /\ found.done
    /\ pcQ = "retrieved"
    /\ kQ > Len(memChunks.items)
    /\ Len(memIndex.items) > Len(memChunks.items)
    /\ \E j \in 1..Len(found.ids) : found.ids[j] >= Len(memChunks.items)

\* C26: with an empty chunk list held, retrieve_relevant_chunks returns the
\* empty context without embedding the question, searching or raising.
C26_EmptyChunksEmptyContext ==
    (/\ BothHeld
     /\ memChunks.items = <<>>
     /\ entryQ \in {"ask", "retrieve"}
     /\ pcQ \notin {"idle", "ensure", "load", "load_chunks", "ready"})
        => /\ contextQ = <<>>
           /\ qv = NoVector
           /\ ~found.done
           /\ errorQ \in {"none", "llm"}
           /\ pcQ \in {"retrieved", "answered", "raised", "responded"}

\* A direct call over an empty chunk list has returned.
C26_Witness ==
    /\ pcQ = "retrieved"
    /\ entryQ = "retrieve"
    /\ BothHeld
    /\ memChunks.items = <<>>
    /\ contextQ = <<>>

\* retrieve_relevant_chunks has returned to generate_answer or to its
\* caller.
Retrieved ==
    /\ entryQ \in {"ask", "retrieve"}
    /\ \/ pcQ \in {"retrieved", "answered"}
       \/ pcQ \in {"raised", "responded"} /\ errorQ \in {"none", "llm"}

\* The positions a search found, without the -1 entries.
Hits == SelectSeq(found.ids, LAMBDA i : i >= 0)

\* C27: when retrieve_relevant_chunks has returned, the context is empty
\* if there was no chunk to search; else the search was asked for
\* min(k, chunk_count) vectors, k being 4 for /ask, the positions found are
\* distinct and those of the greatest scores, greatest first, and the
\* context is their chunks in that order with the separator between them;
\* the language model is sent that context and the question.
C27_ContextIsTopK ==
    Retrieved =>
        LET n == Len(memChunks.items)
            sel == Selected(found.ids, n)
        IN /\ ~found.done => (contextQ = <<>> /\ n = 0)
           /\ found.done =>
                 /\ entryQ = "ask" => found.k = Min(DefaultK, n)
                 /\ Len(Hits) = Min(found.k, Len(memIndex.items))
                 /\ \A a, b \in 1..Len(Hits) :
                       a < b =>
                          /\ Hits[a] # Hits[b]
                          /\ Score(qv, memIndex.items[Hits[a] + 1])
                                >= Score(qv, memIndex.items[Hits[b] + 1])
                 /\ \A a \in 1..Len(Hits) :
                       \A j \in Ids(memIndex) :
                          (\A b \in 1..Len(Hits) : Hits[b] # j) =>
                             Score(qv, memIndex.items[j + 1])
                                <= Score(qv, memIndex.items[Hits[a] + 1])
                 /\ \A j \in 1..Len(contextQ) :
                       contextQ[j] = IF j % 2 = 0 THEN Separator
                                     ELSE memChunks.items[sel[(j + 1) \div 2] + 1]
                 /\ Len(contextQ) = IF sel = <<>> THEN 0 ELSE 2 * Len(sel) - 1
           /\ \A c \in 1..Len(llmCalls) :
                 llmCalls[c] = [context |-> contextQ, question |-> question]

\* /ask has sent the language model four of five chunks with three
\* separators between them, two of the chunks found scoring alike.
C27_Witness ==
    /\ entryQ = "ask"
    /\ pcQ = "answered"
    /\ Len(memChunks.items) = 5
    /\ Len(Hits) = DefaultK
    /\ Len(llmCalls) = 1
    /\ Len(llmCalls[1].context) = 2 * DefaultK - 1
    /\ \E a, b \in 1..Len(Hits) :
          /\ a < b
          /\ Score(qv, memIndex.items[Hits[a] + 1]) = Score(qv, memIndex.items[Hits[b] + 1])

\* C28: the vectors of the persisted index come from one provider, and a
\* query vector searched against an index comes from the provider of the
\* index's vectors.
C28_OneEmbeddingPath ==
    /\ \A i, j \in 1..Len(store.index.items) :
          store.index.items[i].by = store.index.items[j].by
    /\ found.done =>
          \A i \in 1..Len(memIndex.items) : memIndex.items[i].by = qv.by

\* C29: embed_and_store does not end on the failure of one batch: a call
\* that raised had embedded every batch.
C29_BatchFailureIsolated ==
    pcE = "raised" => BatchStart >= Len(chunks)

\* No call is under way.
AllReturned ==
    /\ pc = "idle"
    /\ pcA \in {"idle", "returned", "raised"}
    /\ pcL \in {"idle", "returned", "raised"}
    /\ pcT \in {"idle", "returned", "raised"}
    /\ pcE = "idle"

\* C30: a download is tried at most 3 times for an item, a request is sent
\* at most twice and the second time only after a 401, embed_texts calls
\* each provider at most once, and every call of fetch_onedrive_folder,
\* list_folder_items and embed_and_store returns or raises.
C30_BoundedRetriesTerminate ==
    /\ [](Len(tried) <= MaxRetries)
    /\ [](Len(sent) <= 2 /\ (Len(sent) = 2 => Got401))
    /\ [](\A p \in Providers :
             Cardinality({ j \in 1..Len(callsT) : callsT[j].to = p }) <= 1)
    /\ []<>AllReturned

\* fetch_onedrive_folder has printed its summary after a download that
\* failed three times.
C30_Witness ==
    /\ pc = "done"
    /\ stats.failed >= 1
    /\ stats.downloaded >= 1

\* Squared length within one part in a hundred of 1.0.
IsUnit(v) ==
    /\ SumSq(v) * 100 >= Scale * Scale * 99
    /\ SumSq(v) * 100 <= Scale * Scale * 101

IsZero(v) == \A j \in 1..Len(v) : v[j] = 0

\* C31: every vector that _normalize returns, for the store and for a
\* question alike, has unit Euclidean length (to the precision of the
\* arithmetic) and points where its argument pointed, except the all-zero
\* vector, which comes back all-zero.
C31_UnitNorm ==
    pcN # "idle" =>
        /\ Len(unit) = Len(mat)
        /\ \A i \in 1..Len(mat) :
              /\ Len(unit[i]) = Len(mat[i])
              /\ IF IsZero(mat[i])
                 THEN IsZero(unit[i])
                 ELSE /\ IsUnit(unit[i])
                      /\ \A j \in 1..Len(mat[i]) :
                            /\ mat[i][j] > 0 => unit[i][j] >= 0
                            /\ mat[i][j] < 0 => unit[i][j] <= 0
                            /\ mat[i][j] = 0 => unit[i][j] = 0

\* A build's matrix of a zero vector and of a vector of another length
\* than 1.0 has been normalised.
C31_Witness ==
    /\ pcN = "store"
    /\ Len(mat) = 2
    /\ IsZero(mat[1])
    /\ ~IsZero(mat[2])
    /\ ~IsUnit(mat[2])
    /\ IsUnit(unit[2])

\* C32: a call of /ask sends at most one message to the language model, and
\* sends it only once retrieve_relevant_chunks has returned, with the context
\* it returned; a call that finds the store missing raises the not-built
\* error without having embedded the question, searched, or called the
\* model; and the answer returned is the model's text as it came.
C32_ModelCalledOnceAfterRetrieval ==
    /\ [](Len(llmCalls) <= 1)
    /\ [][llmCalls' # llmCalls /\ llmCalls' # <<>> =>
             /\ entryQ = "ask"
             /\ pcQ = "retrieved"
             /\ errorQ = "none"
             /\ llmCalls = <<>>
             /\ llmCalls' = <<[context |-> contextQ, question |-> question]>>]_vars
    /\ [][pcQ = "load" /\ ~StoreComplete /\ pcQ' # pcQ =>
             errorQ' = "not_built"]_vars
    /\ [](errorQ = "not_built" =>
             /\ qv = NoVector
             /\ found = NoSearch
             /\ llmCalls = <<>>
             /\ reply = <<>>)
    /\ [](pcQ = "answered" \/ (pcQ = "responded" /\ errorQ = "none") =>
             /\ Len(llmCalls) = 1
             /\ reply \in Replies
             /\ answerQ = reply)

\* /ask has answered with a text of the model that begins and ends with a
\* blank.
C32_Witness ==
    /\ pcQ = "responded"
    /\ statusQ = 200
    /\ Len(llmCalls) = 1
    /\ reply = <<" ", "o", "k", " ">>
    /\ answerQ = reply

Outcomes(st) == st.downloaded + st.skipped + st.failed

\* C33: at the summary every listed file that is not protected has been
\* counted once in total and once in exactly one of downloaded, skipped and
\* failed, so that total = downloaded + skipped + failed, and redownloaded
\* is at most downloaded + failed.
C33_TotalsAddUp ==
    /\ [](pc = "done" =>
             /\ stats.total = Cardinality(Candidates)
             /\ stats.total = Outcomes(stats)
             /\ stats.redownloaded <= stats.downloaded + stats.failed)
    /\ [][pc' # "idle" => Outcomes(stats') \in {Outcomes(stats), Outcomes(stats) + 1}]_vars

\* A run reached its summary with a file downloaded, a file skipped, a file
\* failed and a corrupt copy replaced.
C33_Witness ==
    /\ pc = "done"
    /\ stats.downloaded >= 1
    /\ stats.skipped >= 1
    /\ stats.failed >= 1
    /\ stats.redownloaded >= 1

\* The running call follows at once a call with the same arguments, without
\* force_redownload, that downloaded every item; the remote times are those
\* that call saw, and every listed file carries one.
Rerun ==
    /\ pc \in {"loop", "download", "returned", "done"}
    /\ prev.clean
    /\ ~force
    /\ recursive = prev.recursive
    /\ remoteMtime = prev.mtimes
    /\ \A i \in 1..Len(items) : items[i].folder \/ items[i].mtime # 0

C35_NoValidCopyLost ==
    pc = "done" => \A p \in before : _test_file_integrity(p, disk)

\* C36: when the reindex tool has run to its end, the retriever holds an
\* index and a chunk list, and they are the two files the embed step of this
\* call wrote: those of the build this call started, holding the chunks and
\* vectors of the Processed Texts it found.
C36_ReindexServesItsOwnBuild ==
    pcR = "done" =>
        /\ IsLoaded
        /\ memIndex = store.index
        /\ memChunks = store.chunks
        /\ memIndex.build = builds
        /\ memChunks.build = builds

\* The retriever holds the index and not the chunks.
HalfLoaded == memIndex.exists /\ ~memChunks.exists

\* C37: after a load that read the index and failed on the chunks the
\* retriever does not count as loaded; the next call reads both files again
\* or fails again; and whenever a call gets past _ensure_loaded, and so
\* whenever it searches, the index and the chunks it holds were read by one
\* and the same load.
C37_NoHalfLoadedSearch ==
    /\ [][pcQ = "ensure" /\ HalfLoaded /\ pcQ' # pcQ => pcQ' = "load"]_vars
    /\ [][(pcQ \in {"load", "load_chunks"}) /\ pcQ' \notin {"load", "load_chunks"} =>
             (\/ pcQ' = "raised" /\ errorQ' \in {"not_built", "read"}
              \/ pcQ' = "ready" /\ readsQ' = <<"index", "chunks">>)]_vars
    /\ [](pcQ \in {"ready", "embedded", "retrieved", "answered"} \/ found.done =>
             /\ memIndex.exists
             /\ memChunks.exists
             /\ sameLoad)

\* A call has found the retriever holding the index without the chunks and
\* has turned to loading again.
C37_Witness ==
    /\ pcQ = "load"
    /\ entryQ \in {"ask", "retrieve"}
    /\ HalfLoaded
    /\ readsQ = <<>>

====
